---- MODULE Spec2Model ----
(***************************************************************************)
(* Model of the wicked configuration-ingestion core:                       *)
(*   - src/src/interface.c      reference counting, lease list, lease      *)
(*                              ownership matching                         *)
(*   - src/client/compat-suse.c route file parser, global defaults,        *)
(*                              directory scan, ifcfg translation          *)
(*                                                                         *)
(* The parts are independent pieces of program state, so each has its own  *)
(* specification over the shared variables:                                *)
(*   SpecRef     ni_interface_get / ni_interface_put                       *)
(*   SpecLease   ni_interface_set_lease / ni_interface_unset_lease         *)
(*   SpecOwn     __ni_lease_owns_address                                   *)
(*   SpecRoutes  __ni_suse_read_routes                                     *)
(*   Spec        __ni_suse_get_interfaces (directory scan)                 *)
(*                                                                         *)
(* C strings are sequences of one-character strings, so that strtok,       *)
(* strchr, strtoul and friends are modelled by what they do.               *)
(***************************************************************************)
EXTENDS Integers, Sequences, FiniteSets, TLC

(***************************************************************************)
(* Bounds of the model                                                     *)
(***************************************************************************)
NumIfs == 3          \* interface objects in the reference counting model
MaxUsers == 3        \* ni_interface_get is not called beyond this count
MaxLeases == 3       \* lease objects an addrconf agent hands out
MaxOwnEntries == 2   \* addresses plus routes recorded in a lease that is matched
MaxRouteLeases == 2  \* leases of the interface a route is looked up on
MaxRouteLines == 2   \* lines of a route file
MaxFiles == 2        \* ifcfg files found in a directory
MaxScans == 2        \* calls of __ni_suse_get_interfaces

(***************************************************************************)
(* Enumerations of the program (symbolic)                                  *)
(***************************************************************************)
AF_UNSPEC == "AF_UNSPEC"
AF_INET   == "AF_INET"
AF_INET6  == "AF_INET6"

NI_ADDRCONF_DHCP     == "dhcp"
NI_ADDRCONF_STATIC   == "static"
NI_ADDRCONF_AUTOCONF == "auto"
NI_ADDRCONF_IBFT     == "ibft"

VARIABLES
    \* ---- reference counting (interface.c) ----
    users,        \* ifp->users of each interface object
    freeCalls,    \* how often ni_interface_free ran on each object
    refLast,      \* the last get/put call and what it returned
    \* ---- lease list (interface.c) ----
    leases,       \* ifp->leases: the linked list, head first, as lease ids
    leaseKey,     \* lease id -> [family, type] of the allocated lease objects
    leaseFreed,   \* lease ids passed to ni_addrconf_lease_free
    leaseLast,    \* the last set/unset call
    \* ---- lease ownership matching (interface.c) ----
    ownLease,     \* the lease handed to __ni_lease_owns_address
    ownMatch,     \* the address that is looked up
    ownPc,        \* "call" before, "done" after the call
    ownResult,    \* what the call returned
    rlIfp,        \* the interface handed to __ni_interface_route_to_lease
    rlRoute,      \* the route that is looked up
    rlPc,         \* "call" before, "done" after the call
    rlRet,        \* the lease the call returned, and by which test
    \* ---- route file parser (compat-suse.c) ----
    rtFile,       \* the file __ni_suse_read_routes is called on
    rtPc,         \* "call", "loop" (inside the while loop), "done" (returned)
    rtNext,       \* the line the next fgets reads
    rtList,       \* route_list
    rtRet,        \* the returned list (NULL is <<>>)
    rtErr,        \* what ni_error reported ("" for nothing)
    rtCreated,    \* routes ni_route_new made
    rtDestroyed,  \* routes ni_route_list_destroy freed
    \* ---- translation of one ifcfg file (compat-suse.c) ----
    ifIn,         \* what __ni_suse_read_interface is called on
    ifEnv,        \* the global defaults at the time of the call
    ifPc,         \* "call", "done"
    ifRet,        \* what the call returned and logged
    \* ---- global defaults and the scan (compat-suse.c) ----
    __ni_suse_config_defaults,  \* 0 (NULL) or an object of heap
    __ni_suse_dhcp_defaults,
    __ni_suse_global_routes,
    heap,         \* the objects read_globals made, each with its destroy count
    scPc,         \* "idle", "loop" (inside __ni_suse_get_interfaces), "aborted"
    scMode,       \* "dir": path is a directory, "file": a single file
    scLeft,       \* files the loop still has to read
    result,       \* the caller's ni_compat_netdev_array_t
    success,      \* what the last call returned
    scans,        \* calls made so far
    scDir,        \* the global files of the directory of the last call
    scGlobals     \* what __ni_suse_read_globals returned in the last call

refVars   == <<users, freeCalls, refLast>>
leaseVars == <<leases, leaseKey, leaseFreed, leaseLast>>
ownVars   == <<ownLease, ownMatch, ownPc, ownResult, rlIfp, rlRoute, rlPc, rlRet>>
rtVars    == <<rtFile, rtPc, rtNext, rtList, rtRet, rtErr, rtCreated, rtDestroyed>>
ifVars    == <<ifIn, ifEnv, ifPc, ifRet>>
scVars    == <<__ni_suse_config_defaults, __ni_suse_dhcp_defaults, __ni_suse_global_routes,
               heap, scPc, scMode, scLeft, result, success, scans, scDir, scGlobals>>
vars      == <<users, freeCalls, refLast, leases, leaseKey, leaseFreed, leaseLast,
               ownLease, ownMatch, ownPc, ownResult, rlIfp, rlRoute, rlPc, rlRet,
               rtFile, rtPc, rtNext, rtList, rtRet, rtErr, rtCreated, rtDestroyed,
               ifIn, ifEnv, ifPc, ifRet,
               __ni_suse_config_defaults, __ni_suse_dhcp_defaults, __ni_suse_global_routes,
               heap, scPc, scMode, scLeft, result, success, scans, scDir, scGlobals>>

(***************************************************************************)
(* Reference counting of interface objects                                 *)
(*                                                                         *)
(* An object stays addressable after its teardown: the guards of get and   *)
(* put read the count of the object they are handed, and the model keeps   *)
(* the count of a torn-down object at the value teardown left (0).         *)
(***************************************************************************)
Ifs == 1..NumIfs

\* __ni_interface_new: users = 1
__ni_interface_new == [users |-> 1]

\* ni_interface_get on an object whose count is u
ni_interface_get(u) ==
    IF u = 0
    THEN [users |-> u, ret |-> FALSE]
    ELSE [users |-> u + 1, ret |-> TRUE]

\* mutant: the decrement is skipped once the count is already zero, and the
\* teardown test runs all the same
ni_interface_put_noguard(u) ==
    LET u2 == IF u = 0 THEN 0 ELSE u - 1 IN
    IF u2 = 0
    THEN [users |-> u2, ret |-> 0, err |-> FALSE, free |-> TRUE]
    ELSE [users |-> u2, ret |-> u2, err |-> FALSE, free |-> FALSE]

\* mutant: tears the object down while one holder is left
ni_interface_put_early(u) ==
    IF u = 0
    THEN [users |-> u, ret |-> 0, err |-> TRUE, free |-> FALSE]
    ELSE LET u2 == u - 1 IN
         IF u2 <= 1
         THEN [users |-> u2, ret |-> 0, err |-> FALSE, free |-> TRUE]
         ELSE [users |-> u2, ret |-> u2, err |-> FALSE, free |-> FALSE]

\* ni_interface_put on an object whose count is u
ni_interface_put(u) ==
    IF u = 0
    THEN [users |-> u, ret |-> 0, err |-> TRUE, free |-> FALSE]
    ELSE LET u2 == u - 1 IN
         IF u2 = 0
         THEN [users |-> u2, ret |-> 0, err |-> FALSE, free |-> TRUE]
         ELSE [users |-> u2, ret |-> u2, err |-> FALSE, free |-> FALSE]

RefInit ==
    /\ users = [i \in Ifs |-> __ni_interface_new.users]
    /\ freeCalls = [i \in Ifs |-> 0]
    /\ refLast = [op |-> "new", ifp |-> 0, before |-> 0, ok |-> TRUE,
                  ret |-> 0, err |-> FALSE, free |-> FALSE]

InterfaceGet(i) ==
    /\ users[i] < MaxUsers
    /\ LET r == ni_interface_get(users[i]) IN
       /\ users' = [users EXCEPT ![i] = r.users]
       /\ refLast' = [op |-> "get", ifp |-> i, before |-> users[i], ok |-> r.ret,
                      ret |-> 0, err |-> FALSE, free |-> FALSE]
    /\ UNCHANGED <<freeCalls, leaseVars, ownVars, rtVars, ifVars, scVars>>

InterfacePut(i) ==
    /\ LET r == ni_interface_put(users[i]) IN
       /\ users' = [users EXCEPT ![i] = r.users]
       /\ freeCalls' = [freeCalls EXCEPT ![i] = @ + (IF r.free THEN 1 ELSE 0)]
       /\ refLast' = [op |-> "put", ifp |-> i, before |-> users[i], ok |-> TRUE,
                      ret |-> r.ret, err |-> r.err, free |-> r.free]
    /\ UNCHANGED <<leaseVars, ownVars, rtVars, ifVars, scVars>>

(***************************************************************************)
(* Lease list of an interface                                              *)
(*                                                                         *)
(* Lease objects are made by an addrconf agent (ni_addrconf_lease_new is   *)
(* outside src/) and handed to ni_interface_set_lease, which takes         *)
(* ownership.  The caller hands over a lease it owns: one that is          *)
(* allocated, not freed and not on the interface's list.                   *)
(***************************************************************************)
LeaseIds == 1..MaxLeases
LeaseFamilies == {AF_INET, AF_INET6}
LeaseTypes == {NI_ADDRCONF_DHCP, NI_ADDRCONF_AUTOCONF}
LeaseKeys == [family : LeaseFamilies, type : LeaseTypes]

RECURSIVE FindLeaseFrom(_, _, _, _)
FindLeaseFrom(list, family, type, i) ==
    IF i > Len(list) THEN 0
    ELSE IF leaseKey[list[i]].type = type /\ leaseKey[list[i]].family = family
         THEN i
         ELSE FindLeaseFrom(list, family, type, i + 1)

\* __ni_interface_find_lease: position of the first lease of (family, type)
\* on the list, 0 for NULL
find_lease(list, family, type) == FindLeaseFrom(list, family, type, 1)

RemoveAt(list, i) == SubSeq(list, 1, i - 1) \o SubSeq(list, i + 1, Len(list))

\* mutant: looks the lease up without unlinking it (remove = 0)
unset_lease_keep(list, freed, family, type) ==
    LET i == find_lease(list, family, type) IN
    IF i = 0
    THEN [leases |-> list, freed |-> freed, found |-> 0]
    ELSE [leases |-> list, freed |-> freed \cup {list[i]}, found |-> list[i]]

\* ni_interface_unset_lease: find with remove = 1, then ni_addrconf_lease_free
ni_interface_unset_lease(list, freed, family, type) ==
    LET i == find_lease(list, family, type) IN
    IF i = 0
    THEN [leases |-> list, freed |-> freed, found |-> 0]
    ELSE [leases |-> RemoveAt(list, i), freed |-> freed \cup {list[i]},
          found |-> list[i]]

\* ni_interface_set_lease: unset the lease's key, then append at the tail
ni_interface_set_lease(list, freed, l) ==
    LET u == ni_interface_unset_lease(list, freed, leaseKey[l].family, leaseKey[l].type) IN
    [leases |-> Append(u.leases, l), freed |-> u.freed, found |-> u.found]

Allocated == DOMAIN leaseKey
OnList(l) == \E i \in 1..Len(leases) : leases[i] = l
CallerOwned(l) == l \in Allocated /\ l \notin leaseFreed /\ ~OnList(l)

LeaseInit ==
    /\ leases = <<>>
    /\ leaseKey = <<>>
    /\ leaseFreed = {}
    /\ leaseLast = [op |-> "none", lease |-> 0, key |-> [family |-> AF_UNSPEC, type |-> "none"],
                    prev |-> 0, before |-> <<>>]

\* the agent allocates a lease of key k
LeaseNew(k) ==
    /\ Len(leaseKey) < MaxLeases
    /\ leaseKey' = Append(leaseKey, k)
    /\ UNCHANGED <<leases, leaseFreed, leaseLast, refVars, ownVars, rtVars, ifVars, scVars>>

SetLease(l) ==
    /\ CallerOwned(l)
    /\ LET r == ni_interface_set_lease(leases, leaseFreed, l) IN
       /\ leases' = r.leases
       /\ leaseFreed' = r.freed
       /\ leaseLast' = [op |-> "set", lease |-> l, key |-> leaseKey[l], prev |-> r.found,
                        before |-> leases]
    /\ UNCHANGED <<leaseKey, refVars, ownVars, rtVars, ifVars, scVars>>

\* ni_interface_set_lease called with a lease that is on the list already
\* (an agent that updates its lease in place and hands it in again)
SetLeaseAgain(l) ==
    /\ l \in Allocated /\ l \notin leaseFreed /\ OnList(l)
    /\ LET r == ni_interface_set_lease(leases, leaseFreed, l) IN
       /\ leases' = r.leases
       /\ leaseFreed' = r.freed
       /\ leaseLast' = [op |-> "set", lease |-> l, key |-> leaseKey[l], prev |-> r.found,
                        before |-> leases]
    /\ UNCHANGED <<leaseKey, refVars, ownVars, rtVars, ifVars, scVars>>

\* no lease of the list was freed: the list can be walked
ListLive == \A i \in 1..Len(leases) : leases[i] \notin leaseFreed

UnsetLease(k) ==
    /\ LET r == ni_interface_unset_lease(leases, leaseFreed, k.family, k.type) IN
       /\ leases' = r.leases
       /\ leaseFreed' = r.freed
       /\ leaseLast' = [op |-> "unset", lease |-> 0, key |-> k, prev |-> r.found,
                        before |-> leases]
    /\ UNCHANGED <<leaseKey, refVars, ownVars, rtVars, ifVars, scVars>>

(***************************************************************************)
(* Socket addresses                                                        *)
(*                                                                         *)
(* A ni_sockaddr_t is [family, bytes]: 4 octets for AF_INET, 16 for        *)
(* AF_INET6, none for AF_UNSPEC (a zeroed ni_sockaddr_t).                  *)
(***************************************************************************)
NullAddr == [family |-> AF_UNSPEC, bytes |-> <<>>]
V4(a, b, c, d) == [family |-> AF_INET, bytes |-> <<a, b, c, d>>]
\* an IPv6 address from its first four and its last octet, zeros between
V6(a, b, c, d, z) ==
    [family |-> AF_INET6,
     bytes |-> <<a, b, c, d, 0, 0, 0, 0, 0, 0, 0, 0, 0, 0, 0, z>>]

\* ni_af_address_length: octets of an address of the family, 0 if unknown
ni_af_address_length(family) ==
    IF family = AF_INET THEN 4 ELSE IF family = AF_INET6 THEN 16 ELSE 0

Pow2(n) == 2 ^ n

\* ni_address_equal: same family and, unless both are AF_UNSPEC, same octets
ni_address_equal(a, b) ==
    /\ a.family = b.family
    /\ (a.family = AF_UNSPEC \/ a.bytes = b.bytes)

\* ni_address_prefix_match: the first prefix_bits bits of both addresses agree
ni_address_prefix_match(prefix_bits, laddr, gw) ==
    LET len  == ni_af_address_length(laddr.family)
        bits == IF prefix_bits > len * 8 THEN len * 8 ELSE prefix_bits
        full == bits \div 8
        rest == bits % 8
    IN  /\ laddr.family = gw.family
        /\ len # 0
        /\ \A i \in 1..full : laddr.bytes[i] = gw.bytes[i]
        /\ (rest # 0 =>
              laddr.bytes[full + 1] \div Pow2(8 - rest) = gw.bytes[full + 1] \div Pow2(8 - rest))

(***************************************************************************)
(* C strings and libc                                                      *)
(***************************************************************************)
\* the element of a one-element set: The({e(x) : x \in {v}}) computes v once
\* and names it x in e
The(S) == CHOOSE x \in S : TRUE

DigitChars == <<"0", "1", "2", "3", "4", "5", "6", "7", "8", "9">>
IsDigit(c) == \E d \in 1..10 : DigitChars[d] = c
DigitVal(c) == (CHOOSE d \in 1..10 : DigitChars[d] = c) - 1
IsSpace(c) == c \in {" ", "\t", "\n", "\r"}

\* strcspn: length of the initial part of s holding no character of `reject`
RECURSIVE strcspn_from(_, _, _)
strcspn_from(s, reject, i) ==
    IF i > Len(s) \/ s[i] \in reject THEN i - 1
    ELSE strcspn_from(s, reject, i + 1)
strcspn(s, reject) == strcspn_from(s, reject, 1)

\* strchr: position of the first c in s, 0 for NULL
strchr(s, c) ==
    LET n == strcspn(s, {c}) IN IF n = Len(s) THEN 0 ELSE n + 1

\* strspn: length of the initial part of s made of characters of `accept`
RECURSIVE strspn_from(_, _, _)
strspn_from(s, accept, i) ==
    IF i > Len(s) \/ s[i] \notin accept THEN i - 1
    ELSE strspn_from(s, accept, i + 1)

\* all tokens successive strtok / strtok_r calls on s return
RECURSIVE strtok_all(_, _)
strtok_all(s, delims) ==
    The({ IF rest = <<>> THEN <<>>
          ELSE The({ <<SubSeq(rest, 1, n)>> \o
                     strtok_all(SubSeq(rest, n + 2, Len(rest)), delims)
                     : n \in {strcspn(rest, delims)} })
          : rest \in {SubSeq(s, strspn_from(s, delims, 1) + 1, Len(s))} })

\* An unsigned 64 bit number is four 16 bit limbs, least significant first,
\* with `over` set once a decimal text went past 2^64 - 1.
Limb == 2 ^ 16
U64Zero == [l |-> <<0, 0, 0, 0>>, over |-> FALSE]

\* v * 10 + d
U64MulAdd(v, d) ==
    LET t1 == v.l[1] * 10 + d
        t2 == v.l[2] * 10 + t1 \div Limb
        t3 == v.l[3] * 10 + t2 \div Limb
        t4 == v.l[4] * 10 + t3 \div Limb
    IN  [l |-> <<t1 % Limb, t2 % Limb, t3 % Limb, t4 % Limb>>,
         over |-> v.over \/ t4 \div Limb # 0]

RECURSIVE U64Digits(_, _, _)
U64Digits(s, i, v) ==
    IF i > Len(s) \/ ~IsDigit(s[i]) THEN [v |-> v, end |-> i]
    ELSE The({ U64Digits(s, i + 1, nv) : nv \in {U64MulAdd(v, DigitVal(s[i]))} })

\* strtoul(s, &end, 10), the result truncated to an unsigned int:
\* [hi, lo] 16 bit halves of the value, end = position of the first
\* character that was not consumed (Len(s) + 1 for the terminating NUL)
strtoul_digits(s, ws, sign) ==
    The({ LET start == ws + sign + 1
              neg   == sign = 1 /\ s[ws + 1] = "-"
              lo    == r.v.l[1]
              hi    == r.v.l[2]
          IN  IF r.end = start THEN [hi |-> 0, lo |-> 0, end |-> 1]
              ELSE IF r.v.over THEN [hi |-> Limb - 1, lo |-> Limb - 1, end |-> r.end]
              ELSE IF neg /\ (lo # 0 \/ hi # 0)
              THEN [hi |-> IF lo = 0 THEN Limb - hi ELSE Limb - 1 - hi,
                    lo |-> IF lo = 0 THEN 0 ELSE Limb - lo, end |-> r.end]
              ELSE [hi |-> hi, lo |-> lo, end |-> r.end]
          : r \in {U64Digits(s, ws + sign + 1, U64Zero)} })

strtoul(s) ==
    The({ strtoul_digits(s, ws, IF ws < Len(s) /\ s[ws + 1] \in {"+", "-"} THEN 1 ELSE 0)
          : ws \in {strspn_from(s, {" ", "\t", "\n", "\r"}, 1)} })

\* the value of an unsigned int below 2^31
U32Nat(u) == u.hi * Limb + u.lo

\* inet_pton(AF_INET): four decimal octets 0..255 of one to three digits,
\* separated by single dots
RECURSIVE SplitOn(_, _)
SplitOn(s, c) ==
    The({ IF n = Len(s) THEN <<s>>
          ELSE The({ <<SubSeq(s, 1, n)>> \o SplitOn(rest, c)
                     : rest \in {SubSeq(s, n + 2, Len(s))} })
          : n \in {strcspn(s, {c})} })

IsOctetText(t) ==
    /\ Len(t) \in 1..3
    /\ \A i \in 1..Len(t) : IsDigit(t[i])
    /\ U32Nat(strtoul(t)) <= 255

inet_pton4(s) ==
    The({ IF Len(parts) = 4 /\ \A i \in 1..4 : IsOctetText(parts[i])
          THEN [ok |-> TRUE,
                addr |-> [family |-> AF_INET,
                          bytes |-> [i \in 1..4 |-> U32Nat(strtoul(parts[i]))]]]
          ELSE [ok |-> FALSE, addr |-> NullAddr]
          : parts \in {SplitOn(s, ".")} })

\* inet_pton(AF_INET6), for the IPv6 texts the model's files use
S_v6net  == <<"2", "0", "0", "1", ":", "d", "b", "8", ":", ":">>
S_v6gw   == <<"2", "0", "0", "1", ":", "d", "b", "8", ":", ":", "1">>
S_v6loop == <<":", ":", "1">>
inet_pton6(s) ==
    IF s = S_v6net THEN [ok |-> TRUE, addr |-> V6(32, 1, 13, 184, 0)]
    ELSE IF s = S_v6gw THEN [ok |-> TRUE, addr |-> V6(32, 1, 13, 184, 1)]
    ELSE IF s = S_v6loop THEN [ok |-> TRUE, addr |-> V6(0, 0, 0, 0, 1)]
    ELSE [ok |-> FALSE, addr |-> NullAddr]

\* ni_sockaddr_parse(&addr, string, af): ok = (return value >= 0); the
\* address is zeroed when parsing fails
ni_sockaddr_parse(s, af) ==
    The({ IF s = <<>> THEN [ok |-> FALSE, addr |-> NullAddr]
          ELSE IF af \in {AF_UNSPEC, AF_INET6} /\ r6.ok THEN r6
          ELSE IF af \in {AF_UNSPEC, AF_INET} /\ r4.ok THEN r4
          ELSE [ok |-> FALSE, addr |-> NullAddr]
          : r6 \in {inet_pton6(s)}, r4 \in {inet_pton4(s)} })

\* set bits of one octet
RECURSIVE PopCount(_)
PopCount(b) == IF b = 0 THEN 0 ELSE (b % 2) + PopCount(b \div 2)

RECURSIVE SumBits(_, _)
SumBits(bytes, i) ==
    IF i > Len(bytes) THEN 0 ELSE PopCount(bytes[i]) + SumBits(bytes, i + 1)

\* ni_sockaddr_netmask_bits: the number of set bits of the mask
ni_sockaddr_netmask_bits(mask) == SumBits(mask.bytes, 1)

(***************************************************************************)
(* Route files: __ni_suse_read_routes                                      *)
(*                                                                         *)
(* A file is [readable, lines]; a line is the text fgets hands back (the   *)
(* model's lines are shorter than the 512 byte buffer).                    *)
(***************************************************************************)
S_dash     == <<"-">>
S_default  == <<"d", "e", "f", "a", "u", "l", "t">>
S_gw4      == <<"1", "9", "2", ".", "1", "6", "8", ".", "1", ".", "1">>
S_net4     == <<"1", "0", ".", "0", ".", "0", ".", "0">>
S_host4    == <<"1", "9", "2", ".", "1", "6", "8", ".", "1", ".", "7", "7">>
S_mask24   == <<"2", "5", "5", ".", "2", "5", "5", ".", "2", "5", "5", ".", "0">>
S_eth0     == <<"e", "t", "h", "0">>
S_eth1     == <<"e", "t", "h", "1">>
S_bogus    == <<"b", "o", "g", "u", "s">>
S_badmask  == <<"2", "5", "5", ".", "2", "5", "5", ".", "x", ".", "0">>
S_net4cidr == <<"1", "0", ".", "0", ".", "0", ".", "0", "/", "2", "4">>
S_badcidr  == <<"1", "0", ".", "0", ".", "0", "/", "2", "4">>
S_comment  == <<"#", " ", "a", " ", "c", "o", "m", "m", "e", "n", "t">>
S_blank    == <<" ", " ", "\t">>

\* the tokens of a line, one blank between them
RECURSIVE Line(_)
Line(ts) ==
    IF ts = <<>> THEN <<>>
    ELSE IF Len(ts) = 1 THEN ts[1]
    ELSE ts[1] \o <<" ">> \o Line(Tail(ts))

ZeroAddr(family) ==
    [family |-> family, bytes |-> [i \in 1..ni_af_address_length(family) |-> 0]]

NoDevice == <<>>

\* ni_route_new(prefixlen, dest, gw, &list): the new route, or null when the
\* family cannot be told (both unspecified) or destination and gateway are
\* of different families
ni_route_new(prefixlen, dest, gw) ==
    LET af == IF dest.family = AF_UNSPEC THEN gw.family ELSE dest.family IN
    IF af = AF_UNSPEC \/ (gw.family # AF_UNSPEC /\ gw.family # af)
    THEN [null |-> TRUE]
    ELSE [null |-> FALSE,
          route |-> [family |-> af, prefixlen |-> prefixlen,
                     destination |-> IF dest.family = AF_UNSPEC THEN ZeroAddr(af) ELSE dest,
                     gateway |-> gw, device |-> NoDevice]]

\* the "/prefix" of a destination text: 255 when there is none (lines 303-305)
RoutePrefixText(dest) ==
    The({ IF sp # 0 THEN U32Nat(strtoul(SubSeq(dest, sp + 1, Len(dest)))) ELSE 255
          : sp \in {strchr(dest, "/")} })

\* the address part of a destination text (the '/' is overwritten with NUL)
RouteAddrText(dest) ==
    The({ IF sp # 0 THEN SubSeq(dest, 1, sp - 1) ELSE dest : sp \in {strchr(dest, "/")} })

\* mutant: the mask column is not looked at
RouteDestNoMask(dest, hasMask, mask, gw_addr) ==
    IF dest = S_default
    THEN [ok |-> TRUE, err |-> "", addr |-> ZeroAddr(gw_addr.family), prefixlen |-> 0]
    ELSE The({ IF ~d.ok
               THEN [ok |-> FALSE, err |-> "dest", addr |-> d.addr, prefixlen |-> plen]
               ELSE [ok |-> TRUE, err |-> "", addr |-> d.addr,
                     prefixlen |-> IF plen = 255
                                   THEN ni_af_address_length(d.addr.family) * 8 ELSE plen]
               : d \in {ni_sockaddr_parse(RouteAddrText(dest), AF_UNSPEC)},
                 plen \in {RoutePrefixText(dest)} })

\* the prefix length the mask column gives (lines 316-327)
RouteMask(d, plen, hasMask, mask) ==
    IF ~hasMask \/ mask = S_dash
    THEN [ok |-> TRUE, err |-> "", addr |-> d.addr,
          prefixlen |-> ni_af_address_length(d.addr.family) * 8]
    ELSE The({ IF ~m.ok
               THEN [ok |-> FALSE, err |-> "mask", addr |-> d.addr, prefixlen |-> plen]
               ELSE [ok |-> TRUE, err |-> "", addr |-> d.addr,
                     prefixlen |-> ni_sockaddr_netmask_bits(m.addr)]
               : m \in {ni_sockaddr_parse(mask, AF_UNSPEC)} })

\* destination and prefix length of a line (lines 296-328)
RouteDest(dest, hasMask, mask, gw_addr) ==
    IF dest = S_default
    THEN [ok |-> TRUE, err |-> "", addr |-> ZeroAddr(gw_addr.family), prefixlen |-> 0]
    ELSE The({ IF ~d.ok
               THEN [ok |-> FALSE, err |-> "dest", addr |-> d.addr, prefixlen |-> plen]
               ELSE IF plen # 255
               THEN [ok |-> TRUE, err |-> "", addr |-> d.addr, prefixlen |-> plen]
               ELSE RouteMask(d, plen, hasMask, mask)
               : d \in {ni_sockaddr_parse(RouteAddrText(dest), AF_UNSPEC)},
                 plen \in {RoutePrefixText(dest)} })

\* the gateway column (lines 287-294)
RouteGw(toks) ==
    IF Len(toks) < 2 \/ toks[2] = S_dash
    THEN [ok |-> TRUE, addr |-> NullAddr]
    ELSE ni_sockaddr_parse(toks[2], AF_UNSPEC)

\* ni_route_new and the interface column (lines 330-338)
RouteAdd(toks, gw, d, route_list) ==
    The({ IF rp.null THEN [status |-> "error", err |-> "route", list |-> route_list]
          ELSE [status |-> "ok", err |-> "",
                list |-> Append(route_list,
                                IF Len(toks) >= 4 /\ toks[4] # S_dash
                                THEN [rp.route EXCEPT !.device = toks[4]]
                                ELSE rp.route)]
          : rp \in {ni_route_new(d.prefixlen, d.addr, gw.addr)} })

\* the columns of a line that holds some (lines 274-338)
RouteTokens(toks, route_list) ==
    The({ IF ~gw.ok THEN [status |-> "error", err |-> "gw", list |-> route_list]
          ELSE The({ IF ~d.ok
                     THEN [status |-> "error", err |-> d.err, list |-> route_list]
                     ELSE RouteAdd(toks, gw, d, route_list)
                     : d \in {RouteDest(toks[1], Len(toks) >= 3,
                                        IF Len(toks) >= 3 THEN toks[3] ELSE <<>>, gw.addr)} })
          : gw \in {RouteGw(toks)} })

\* one pass of the while loop over `buffer` (lines 266-339):
\* status "continue" (nothing on the line), "ok" (route appended), "error"
RouteLine(buffer, route_list) ==
    The({ IF toks = <<>> THEN [status |-> "continue", err |-> "", list |-> route_list]
          ELSE RouteTokens(toks, route_list)
          : toks \in {strtok_all(SubSeq(buffer, 1, strcspn(buffer, {"#", "\r", "\n"})),
                                 {" ", "\t"})} })

\* mutant: the error exit hands back what was parsed so far
ReadRoutesErrorKeep(route_list) ==
    [ret |-> route_list, destroyed |-> 0]

\* the error exit (lines 345-348): ni_route_list_destroy, return NULL
\* (a NULL list is the empty sequence)
ReadRoutesError(route_list) ==
    [ret |-> <<>>, destroyed |-> Len(route_list)]

\* the whole function on a file: what it returns and which error it logged
RECURSIVE ReadRoutesFrom(_, _, _)
ReadRoutesFrom(lines, i, route_list) ==
    IF i > Len(lines) THEN [ret |-> route_list, err |-> ""]
    ELSE The({ IF r.status = "error"
               THEN [ret |-> ReadRoutesError(r.list).ret, err |-> r.err]
               ELSE The({ ReadRoutesFrom(lines, i + 1, l) : l \in {r.list} })
               : r \in {RouteLine(lines[i], route_list)} })

__ni_suse_read_routes(file) ==
    IF ~file.readable THEN [ret |-> <<>>, err |-> "open"]
    ELSE ReadRoutesFrom(file.lines, 1, <<>>)

\* ---- the files the parser is run on ----
RouteLinePool ==
    { Line(<<S_default, S_gw4, S_dash, S_dash>>),
      Line(<<S_net4cidr, S_dash, S_dash, S_dash>>),
      Line(<<S_net4, S_dash, S_mask24, S_dash>>),
      Line(<<S_net4, S_gw4, S_mask24, S_eth0>>) \o <<" ">> \o S_comment,
      Line(<<S_host4>>),
      S_comment,
      S_blank,
      Line(<<S_net4cidr, S_bogus>>),
      Line(<<S_bogus, S_gw4>>),
      Line(<<S_net4, S_dash, S_badmask>>),
      Line(<<S_net4cidr, S_dash, S_badmask>>),
      Line(<<S_default, S_dash, S_dash, S_eth0>>),
      Line(<<S_v6net, S_v6gw, S_dash, S_eth1>>),
      Line(<<S_default, S_v6gw, S_mask24>>) }

SeqsUpTo(S, n) == UNION {[1..k -> S] : k \in 0..n}

\* decimal text of a number
RECURSIVE DecStr(_)
DecStr(n) ==
    IF n < 10 THEN <<DigitChars[n + 1]>>
    ELSE DecStr(n \div 10) \o <<DigitChars[(n % 10) + 1]>>

\* dotted text of an IPv4 address
AddrText(a) ==
    DecStr(a.bytes[1]) \o <<".">> \o DecStr(a.bytes[2]) \o <<".">> \o
    DecStr(a.bytes[3]) \o <<".">> \o DecStr(a.bytes[4])

\* the IPv4 netmask of n leading one bits
MaskOctet(n, k) ==
    LET b == IF n >= 8 * k THEN 8 ELSE IF n <= 8 * (k - 1) THEN 0 ELSE n - 8 * (k - 1)
    IN  256 - Pow2(8 - b)
MaskAddr(n) == V4(MaskOctet(n, 1), MaskOctet(n, 2), MaskOctet(n, 3), MaskOctet(n, 4))

\* the same network in CIDR form and in netmask form
CidrLine(net, n) == Line(<<AddrText(net) \o <<"/">> \o DecStr(n), S_dash, S_dash, S_dash>>)
MaskLine(net, n) == Line(<<AddrText(net), S_dash, AddrText(MaskAddr(n)), S_dash>>)
PairFile(net, n) == <<CidrLine(net, n), MaskLine(net, n)>>
PairNets == {V4(10, 0, 0, 0), V4(192, 168, 1, 77)}
PairLens == 0..(8 * ni_af_address_length(AF_INET))

RouteFiles ==
    {[readable |-> FALSE, lines |-> <<>>]} \cup
    {[readable |-> TRUE, lines |-> ls] :
        ls \in SeqsUpTo(RouteLinePool, MaxRouteLines)
               \cup {PairFile(net, n) : net \in PairNets, n \in PairLens}}

NoRouteFile == [readable |-> FALSE, lines |-> <<>>]

\* no call in progress (the other specifications)
RoutesPark ==
    /\ rtFile = NoRouteFile
    /\ rtPc = "idle"
    /\ rtNext = 1
    /\ rtList = <<>>
    /\ rtRet = <<>>
    /\ rtErr = ""
    /\ rtCreated = 0
    /\ rtDestroyed = 0

RoutesInit ==
    /\ rtFile \in RouteFiles
    /\ rtPc = "call"
    /\ rtNext = 1
    /\ rtList = <<>>
    /\ rtRet = <<>>
    /\ rtErr = ""
    /\ rtCreated = 0
    /\ rtDestroyed = 0

\* fopen (lines 260-263)
ReadRoutesOpen ==
    /\ rtPc = "call"
    /\ IF rtFile.readable
       THEN rtPc' = "loop" /\ rtErr' = rtErr
       ELSE rtPc' = "done" /\ rtErr' = "open"
    /\ UNCHANGED <<rtFile, rtNext, rtList, rtRet, rtCreated, rtDestroyed,
                   refVars, leaseVars, ownVars, ifVars, scVars>>

\* fgets read a line: one pass of the loop, or the error exit
ReadRoutesLine ==
    /\ rtPc = "loop"
    /\ rtNext <= Len(rtFile.lines)
    /\ \E r \in {RouteLine(rtFile.lines[rtNext], rtList)} :
       IF r.status = "error"
       THEN \E e \in {ReadRoutesError(r.list)} :
            /\ rtRet' = e.ret
            /\ rtDestroyed' = rtDestroyed + e.destroyed
            /\ rtErr' = r.err
            /\ rtPc' = "done"
            /\ UNCHANGED <<rtList, rtNext, rtCreated>>
       ELSE /\ rtList' = r.list
            /\ rtCreated' = rtCreated + (Len(r.list) - Len(rtList))
            /\ rtNext' = rtNext + 1
            /\ UNCHANGED <<rtRet, rtDestroyed, rtErr, rtPc>>
    /\ UNCHANGED <<rtFile, refVars, leaseVars, ownVars, ifVars, scVars>>

\* fgets returned NULL: fclose, return route_list
ReadRoutesEof ==
    /\ rtPc = "loop"
    /\ rtNext > Len(rtFile.lines)
    /\ rtRet' = rtList
    /\ rtPc' = "done"
    /\ UNCHANGED <<rtFile, rtNext, rtList, rtErr, rtCreated, rtDestroyed,
                   refVars, leaseVars, ownVars, ifVars, scVars>>

(***************************************************************************)
(* Lease ownership of an address: __ni_lease_owns_address                  *)
(***************************************************************************)
Now == 2             \* what time(NULL) returns during the call
Past == Now - 1
Future == Now + 1

IsAutoconf6(lease) == lease.family = AF_INET6 /\ lease.type = NI_ADDRCONF_AUTOCONF

\* mutant: the expiry test lacks "rp->expires &&", so a route that never
\* expires (0) counts as expired
OwnsByRoutesNoZero(routes, match, now, i) ==
    \E k \in i..Len(routes) :
        /\ routes[k].prefixlen = match.prefixlen
        /\ ~(routes[k].expires <= now)
        /\ ni_address_prefix_match(routes[k].prefixlen, routes[k].destination, match.local_addr)

\* the loop over lease->routes of an IPv6 autoconf lease, from entry i on
RECURSIVE OwnsByRoutes(_, _, _, _)
OwnsByRoutes(routes, match, now, i) ==
    IF i > Len(routes) THEN FALSE
    ELSE LET rp == routes[i] IN
         IF rp.prefixlen # match.prefixlen
         THEN OwnsByRoutes(routes, match, now, i + 1)
         ELSE IF rp.expires # 0 /\ rp.expires <= now
         THEN OwnsByRoutes(routes, match, now, i + 1)
         ELSE IF ni_address_prefix_match(rp.prefixlen, rp.destination, match.local_addr)
         THEN TRUE
         ELSE OwnsByRoutes(routes, match, now, i + 1)

\* the loop over lease->addrs, from entry i on
RECURSIVE OwnsByAddrs(_, _, _, _)
OwnsByAddrs(lease, match, now, i) ==
    IF i > Len(lease.addrs) THEN FALSE
    ELSE LET ap == lease.addrs[i] IN
         IF ap.prefixlen # match.prefixlen
         THEN OwnsByAddrs(lease, match, now, i + 1)
         ELSE IF ap.expires # 0 /\ ap.expires <= now
         THEN OwnsByAddrs(lease, match, now, i + 1)
         ELSE IF IsAutoconf6(lease)
                 /\ ~ni_address_prefix_match(match.prefixlen, ap.local_addr, match.local_addr)
         THEN OwnsByAddrs(lease, match, now, i + 1)
         ELSE IF ~IsAutoconf6(lease)
                 /\ ni_address_equal(ap.local_addr, match.local_addr)
         THEN OwnsByAddrs(lease, match, now, i + 1)
         ELSE IF /\ ni_address_equal(ap.peer_addr, match.peer_addr)
                 /\ ni_address_equal(ap.anycast_addr, match.anycast_addr)
         THEN TRUE
         ELSE OwnsByAddrs(lease, match, now, i + 1)

__ni_lease_owns_address(lease, match, now) ==
    IF lease.null \/ lease.family # match.family THEN 0
    ELSE IF IsAutoconf6(lease) /\ OwnsByRoutes(lease.routes, match, now, 1) THEN 1
    ELSE IF OwnsByAddrs(lease, match, now, 1) THEN 1
    ELSE 0

\* ---- the inputs the matching is run on ----
Addr4a == V4(10, 0, 0, 1)
Addr4b == V4(10, 0, 0, 2)
Peer4  == V4(10, 0, 0, 254)
Addr6a == V6(32, 1, 13, 184, 16)        \* 2001:db8::10
Addr6b == V6(32, 1, 13, 184, 32)        \* 2001:db8::20
Addr6c == V6(32, 1, 13, 185, 16)        \* 2001:db9::10
Net6a  == V6(32, 1, 13, 184, 0)         \* 2001:db8::
Net6c  == V6(32, 1, 13, 185, 0)         \* 2001:db9::

MkAddr(local, plen, peer, expires) ==
    [family |-> local.family, prefixlen |-> plen, local_addr |-> local,
     peer_addr |-> peer, anycast_addr |-> NullAddr, expires |-> expires]

MkRoute(dest, plen, expires) ==
    [family |-> dest.family, prefixlen |-> plen, destination |-> dest, expires |-> expires]

OwnAddrPool ==
    { MkAddr(Addr4a, 24, NullAddr, 0),
      MkAddr(Addr4b, 24, NullAddr, 0),
      MkAddr(Addr4a, 24, NullAddr, Past),
      MkAddr(Addr4a, 16, NullAddr, Future),
      MkAddr(Addr4a, 24, Peer4, 0),
      MkAddr(Addr6a, 64, NullAddr, 0),
      MkAddr(Addr6c, 64, NullAddr, Past) }

OwnRoutePool ==
    { MkRoute(Net6a, 64, 0),
      MkRoute(Net6a, 64, Past),
      MkRoute(Net6a, 64, Now),
      MkRoute(Net6a, 64, Future),
      MkRoute(Net6a, 31, 0),
      MkRoute(Net6c, 64, 0),
      MkRoute(V4(10, 0, 0, 0), 24, 0) }

OwnMatchPool ==
    { MkAddr(Addr4a, 24, NullAddr, 0),
      MkAddr(Addr4a, 24, Peer4, 0),
      MkAddr(Addr4b, 24, NullAddr, 0),
      MkAddr(Addr6a, 64, NullAddr, 0),
      MkAddr(Addr6b, 64, NullAddr, 0),
      MkAddr(Addr6c, 31, NullAddr, 0) }

NullLease ==
    [null |-> TRUE, family |-> AF_UNSPEC, type |-> NI_ADDRCONF_STATIC,
     addrs |-> <<>>, routes |-> <<>>]

OwnLeases ==
    {NullLease} \cup
    UNION { { [null |-> FALSE, family |-> f, type |-> t, addrs |-> as, routes |-> rs] :
                f \in {AF_INET, AF_INET6},
                t \in {NI_ADDRCONF_DHCP, NI_ADDRCONF_AUTOCONF},
                rs \in SeqsUpTo(OwnRoutePool, MaxOwnEntries - Len(as)) } :
            as \in SeqsUpTo(OwnAddrPool, MaxOwnEntries) }

(***************************************************************************)
(* The lease a route belongs to: __ni_interface_route_to_lease             *)
(*                                                                         *)
(* ifp is [null, leases], leases being the list ifp->leases head first; a  *)
(* lease is [addrs, routes].  The call returns [lease, via]: the place of  *)
(* the lease in the list (0 for NULL) and the test that found it.          *)
(***************************************************************************)
\* ni_route_equal: same family, prefix length, destination and gateway
ni_route_equal(r1, r2) ==
    /\ r1.family = r2.family
    /\ r1.prefixlen = r2.prefixlen
    /\ ni_address_equal(r1.destination, r2.destination)
    /\ ni_address_equal(r1.gateway, r2.gateway)

\* __ni_lease_owns_route (lines 416-429): the place of the first equal
\* route in lease->routes, 0 for NULL
RECURSIVE OwnsRouteFrom(_, _, _)
OwnsRouteFrom(routes, rp, i) ==
    IF i > Len(routes) THEN 0
    ELSE IF ni_route_equal(routes[i], rp) THEN i
    ELSE OwnsRouteFrom(routes, rp, i + 1)

__ni_lease_owns_route(lease, rp) ==
    IF lease.null THEN 0 ELSE OwnsRouteFrom(lease.routes, rp, 1)

\* the loop over lease->addrs (lines 403-407): rp is an interface route
RECURSIVE IsInterfaceRoute(_, _, _)
IsInterfaceRoute(addrs, rp, i) ==
    IF i > Len(addrs) THEN FALSE
    ELSE IF /\ rp.prefixlen = addrs[i].prefixlen
            /\ ni_address_prefix_match(addrs[i].prefixlen, rp.destination,
                                       addrs[i].local_addr)
    THEN TRUE
    ELSE IsInterfaceRoute(addrs, rp, i + 1)

NoLease == [lease |-> 0, via |-> "none"]

\* the lookup scanning the list from its end: the last lease that owns the
\* route
RECURSIVE RouteToLeaseBackFrom(_, _, _)
RouteToLeaseBackFrom(list, rp, i) ==
    IF i < 1 THEN NoLease
    ELSE IF IsInterfaceRoute(list[i].addrs, rp, 1) THEN [lease |-> i, via |-> "address"]
    ELSE IF __ni_lease_owns_route(list[i], rp) # 0 THEN [lease |-> i, via |-> "route"]
    ELSE RouteToLeaseBackFrom(list, rp, i - 1)

RouteToLeaseLast(ifp, rp) ==
    IF ifp.null \/ rp.null THEN NoLease
    ELSE RouteToLeaseBackFrom(ifp.leases, rp.route, Len(ifp.leases))

\* the loop over ifp->leases (lines 401-411), from lease i on
RECURSIVE RouteToLeaseFrom(_, _, _)
RouteToLeaseFrom(list, rp, i) ==
    IF i > Len(list) THEN NoLease
    ELSE IF IsInterfaceRoute(list[i].addrs, rp, 1) THEN [lease |-> i, via |-> "address"]
    ELSE IF __ni_lease_owns_route(list[i], rp) # 0 THEN [lease |-> i, via |-> "route"]
    ELSE RouteToLeaseFrom(list, rp, i + 1)

\* __ni_interface_route_to_lease (lines 392-414)
__ni_interface_route_to_lease(ifp, rp) ==
    IF ifp.null \/ rp.null THEN NoLease
    ELSE RouteToLeaseFrom(ifp.leases, rp.route, 1)

\* ---- the inputs the lookup is run on ----
Gw4 == V4(10, 0, 0, 254)
RlRoute(dest, plen, gw) ==
    [family |-> dest.family, prefixlen |-> plen, destination |-> dest, gateway |-> gw,
     device |-> NoDevice]

\* addresses and routes recorded in the leases
RlAddrPool == { MkAddr(Addr4a, 24, NullAddr, 0), MkAddr(Addr6a, 64, NullAddr, 0) }
RlOwnPool ==
    { RlRoute(V4(10, 0, 0, 0), 24, NullAddr),
      RlRoute(V4(10, 1, 0, 0), 16, Gw4),
      RlRoute(ZeroAddr(AF_INET), 0, Gw4) }

\* routes that are looked up
RlLookupPool ==
    { RlRoute(V4(10, 0, 0, 0), 24, NullAddr),      \* on-link of 10.0.0.1/24
      RlRoute(V4(10, 0, 0, 0), 16, NullAddr),      \* another prefix length
      RlRoute(V4(10, 1, 0, 0), 16, Gw4),
      RlRoute(V4(10, 1, 0, 0), 16, NullAddr),      \* another gateway
      RlRoute(ZeroAddr(AF_INET), 0, Gw4),
      RlRoute(Net6a, 64, NullAddr) }               \* on-link of 2001:db8::10/64

RlLeasePool ==
    { [null |-> FALSE, addrs |-> as, routes |-> rs] :
        as \in SeqsUpTo(RlAddrPool, 1), rs \in SeqsUpTo(RlOwnPool, 1) }

NullIfp == [null |-> TRUE, leases |-> <<>>]
NullRoute == [null |-> TRUE, route |-> RlRoute(NullAddr, 0, NullAddr)]

\* no lookup in progress (the other specifications)
RouteLeasePark ==
    /\ rlIfp = NullIfp
    /\ rlRoute = NullRoute
    /\ rlPc = "idle"
    /\ rlRet = NoLease

RouteLeaseInit ==
    /\ rlIfp \in {NullIfp} \cup
                 { [null |-> FALSE, leases |-> l] : l \in SeqsUpTo(RlLeasePool, MaxRouteLeases) }
    /\ rlRoute \in {NullRoute} \cup { [null |-> FALSE, route |-> r] : r \in RlLookupPool }
    /\ rlPc = "call"
    /\ rlRet = NoLease

\* the call and its return
RouteToLease ==
    /\ rlPc = "call"
    /\ rlRet' = __ni_interface_route_to_lease(rlIfp, rlRoute)
    /\ rlPc' = "done"
    /\ UNCHANGED <<rlIfp, rlRoute, ownLease, ownMatch, ownPc, ownResult,
                   refVars, leaseVars, rtVars, ifVars, scVars>>

\* no address lookup in progress
OwnAddrPark ==
    /\ ownLease = NullLease
    /\ ownMatch = MkAddr(Addr4a, 24, NullAddr, 0)
    /\ ownPc = "idle"
    /\ ownResult = 0

\* no call in progress (the other specifications)
OwnPark == OwnAddrPark /\ RouteLeasePark

OwnInit ==
    /\ ownLease \in OwnLeases
    /\ ownMatch \in OwnMatchPool
    /\ ownPc = "call"
    /\ ownResult = 0
    /\ RouteLeasePark

OwnsAddress ==
    /\ ownPc = "call"
    /\ ownResult' = __ni_lease_owns_address(ownLease, ownMatch, Now)
    /\ ownPc' = "done"
    /\ UNCHANGED <<ownLease, ownMatch, rlIfp, rlRoute, rlPc, rlRet,
                   refVars, leaseVars, rtVars, ifVars, scVars>>

(***************************************************************************)
(* ifcfg files: __ni_suse_read_interface and the link-type recognizers     *)
(*                                                                         *)
(* A sysconfig file that was read (ni_sysconfig_t) is a function from the  *)
(* names of its variables to their values.  Recognizers return             *)
(* [ret, compat, errs]: their result, the device as they leave it and the  *)
(* messages they logged (ni_error; a ni_warn is marked "warn:").  What     *)
(* library code outside this source tree decides (validation of a bond or  *)
(* bridge) comes with the file as input.                                   *)
(***************************************************************************)
NI_IFTYPE_UNKNOWN  == "unknown"
NI_IFTYPE_LOOPBACK == "loopback"
NI_IFTYPE_ETHERNET == "ethernet"
NI_IFTYPE_BRIDGE   == "bridge"
NI_IFTYPE_BOND     == "bond"
NI_IFTYPE_VLAN     == "vlan"
NI_IFTYPE_WIRELESS == "wireless"
NI_IFTYPE_SIT      == "sit"
NI_IFTYPE_GRE      == "gre"
NI_IFTYPE_TUNNEL   == "tunnel"
NI_IFTYPE_TUNNEL6  == "tunnel6"
NI_IFTYPE_TUN      == "virtual-tunnel"
NI_IFTYPE_TAP      == "virtual-tap"

IFNAMSIZ == 16
__NI_VLAN_TAG_MAX == 4094

LowerChars == <<"a", "b", "c", "d", "e", "f", "g", "h", "i", "j", "k", "l", "m",
                "n", "o", "p", "q", "r", "s", "t", "u", "v", "w", "x", "y", "z">>
UpperChars == <<"A", "B", "C", "D", "E", "F", "G", "H", "I", "J", "K", "L", "M",
                "N", "O", "P", "Q", "R", "S", "T", "U", "V", "W", "X", "Y", "Z">>
IsUpper(c) == \E i \in 1..Len(UpperChars) : UpperChars[i] = c
IsLower(c) == \E i \in 1..Len(LowerChars) : LowerChars[i] = c
IsAlnum(c) == IsDigit(c) \/ IsLower(c) \/ IsUpper(c)
ToLower(c) ==
    IF IsUpper(c) THEN LowerChars[CHOOSE i \in 1..Len(UpperChars) : UpperChars[i] = c] ELSE c

\* strcasecmp(a, b) == 0
StrCaseEq(a, b) ==
    Len(a) = Len(b) /\ \A i \in 1..Len(a) : ToLower(a[i]) = ToLower(b[i])

\* strrchr: position of the last c in s, 0 for NULL
RECURSIVE strrchr_from(_, _, _)
strrchr_from(s, c, i) ==
    IF i = 0 \/ s[i] = c THEN i ELSE strrchr_from(s, c, i - 1)
strrchr(s, c) == strrchr_from(s, c, Len(s))

\* texts of the model's files
S_ifcfg == <<"i", "f", "c", "f", "g", "-">>
S_lo == <<"l", "o">>
S_yes == <<"y", "e", "s">>
S_no == <<"n", "o">>
S_on == <<"o", "n">>
S_off == <<"o", "f", "f">>
S_true == <<"t", "r", "u", "e">>
S_YES == <<"Y", "E", "S">>
S_maybe == <<"m", "a", "y", "b", "e">>
S_br0 == <<"b", "r", "0">>
S_bond0 == <<"b", "o", "n", "d", "0">>
S_vlan50 == <<"v", "l", "a", "n", "5", "0">>
S_eth0_100 == <<"e", "t", "h", "0", ".", "1", "0", "0">>
S_wlan0 == <<"w", "l", "a", "n", "0">>
S_tun0 == <<"t", "u", "n", "0">>
S_n123 == <<"1", "2", "3">>
S_badname == <<"-", "e", "t", "h", "0">>
S_mode_ab == <<"m", "o", "d", "e", "=", "a", "c", "t", "i", "v", "e", "-", "b", "a", "c", "k", "u", "p", " ", "m", "i", "i", "m", "o", "n", "=", "1", "0", "0">>
S_mode_noval == <<"m", "o", "d", "e", "=", " ", "m", "i", "i", "m", "o", "n", "=", "1", "0", "0">>
S_noeq == <<"m", "o", "d", "e">>
S_ports_ok == <<"e", "t", "h", "0", " ", "e", "t", "h", "1">>
S_ports_bad == <<"e", "t", "h", "0", " ", "e", "/", "h", "1">>
S_n100 == <<"1", "0", "0">>
S_n4095 == <<"4", "0", "9", "5">>
S_n12x == <<"1", "2", "x">>
S_n32768 == <<"3", "2", "7", "6", "8">>
S_n15 == <<"1", "5">>
S_n1_5 == <<"1", ".", "5">>
S_wrap == <<"4", "2", "9", "4", "9", "6", "7", "2", "9", "7">>
S_prio_ok == <<"1", "0", " ", "-">>
S_prio_bad == <<"1", "0", " ", "x">>
S_cost_ok == <<"5", " ", "7">>
S_cost_bad == <<"x", " ", "7">>
S_essid == <<"h", "o", "m", "e">>
S_tun == <<"t", "u", "n">>
S_tap == <<"t", "a", "p">>
S_sit == <<"s", "i", "t">>
S_gre == <<"g", "r", "e">>
S_ipip == <<"i", "p", "i", "p">>
S_ip6tnl == <<"i", "p", "6", "t", "n", "l">>
S_l2tp == <<"l", "2", "t", "p">>
S_ethtool == <<"s", "p", "e", "e", "d", " ", "1", "0", "0">>
S_static == <<"s", "t", "a", "t", "i", "c">>
S_none == <<"n", "o", "n", "e">>
S_ibft == <<"i", "b", "f", "t">>
S_6to4 == <<"6", "t", "o", "4">>
S_dhcp == <<"d", "h", "c", "p">>
S_dhcp4 == <<"d", "h", "c", "p", "4">>
S_dhcp6 == <<"d", "h", "c", "p", "6">>
S_autoip == <<"a", "u", "t", "o", "i", "p">>
S_dhcp4_dhcp6 == <<"d", "h", "c", "p", "4", "+", "d", "h", "c", "p", "6">>
S_dhcp_autoip == <<"d", "h", "c", "p", "+", "a", "u", "t", "o", "i", "p">>
S_DHCP == <<"D", "H", "C", "P">>
S_auto == <<"a", "u", "t", "o">>
S_manual == <<"m", "a", "n", "u", "a", "l">>
S_boot == <<"b", "o", "o", "t">>
S_addr4 == <<"1", "9", "2", ".", "1", "6", "8", ".", "1", ".", "1", "0">>
S_addr4p == <<"1", "9", "2", ".", "1", "6", "8", ".", "1", ".", "1", "0", "/", "2", "4">>
S_addr4far == <<"1", "7", "2", ".", "1", "6", ".", "0", ".", "5", "/", "1", "6">>
S_addr6p == <<"2", "0", "0", "1", ":", "d", "b", "8", ":", ":", "1", "/", "6", "4">>
S_n24 == <<"2", "4">>
S_n16 == <<"1", "6">>
S_mask16 == <<"2", "5", "5", ".", "2", "5", "5", ".", "0", ".", "0">>
S_bcast == <<"1", "9", "2", ".", "1", "6", "8", ".", "1", ".", "2", "5", "5">>
S_host_gl == <<"g", "l", "o", "b", "a", "l", "h", "o", "s", "t">>
S_host_if == <<"i", "f", "h", "o", "s", "t">>
S_cid == <<"0", "1", ":", "0", "2">>
S_vend == <<"s", "u", "s", "e">>
S_n0 == <<"0">>
S_n3600 == <<"3", "6", "0", "0">>
S_tilde == <<"~">>
S_old == <<".", "o", "l", "d">>
S_bak == <<".", "b", "a", "k">>
S_orig == <<".", "o", "r", "i", "g">>
S_scpm == <<".", "s", "c", "p", "m", "b", "a", "c", "k", "u", "p">>
S_rpmnew == <<".", "r", "p", "m", "n", "e", "w">>
S_rpmsave == <<".", "r", "p", "m", "s", "a", "v", "e">>
S_rpmorig == <<".", "r", "p", "m", "o", "r", "i", "g">>
S_e_bondmode == <<"i", "n", "v", "a", "l", "i", "d", " ", "b", "o", "n", "d", "i", "n", "g", " ", "m", "o", "d", "e">>
S_e_bridge == <<"i", "n", "v", "a", "l", "i", "d", " ", "b", "r", "i", "d", "g", "e">>
S_onboot == <<"o", "n", "b", "o", "o", "t">>
S_hotplug == <<"h", "o", "t", "p", "l", "u", "g">>
S_ifplugd == <<"i", "f", "p", "l", "u", "g", "d">>
S_nfsroot == <<"n", "f", "s", "r", "o", "o", "t">>
S_loop6 == <<":", ":", "1">>
S_loop4 == <<"1", "2", "7", ".", "0", ".", "0", ".", "1">>

\* __ni_suse_ifcfg_valid_suffix
SuffixBlacklist ==
    <<S_tilde, S_old, S_bak, S_orig, S_scpm, S_rpmnew, S_rpmsave, S_rpmorig>>
EndsWith(name, suffix) ==
    Len(name) >= Len(suffix) /\
    SubSeq(name, Len(name) - Len(suffix) + 1, Len(name)) = suffix
__ni_suse_ifcfg_valid_suffix(name, pfxlen) ==
    /\ Len(name) > pfxlen
    /\ \A i \in 1..Len(SuffixBlacklist) : ~EndsWith(name, SuffixBlacklist[i])

\* __ni_suse_ifcfg_valid_prefix
__ni_suse_ifcfg_valid_prefix(basename, prefix) ==
    Len(basename) >= Len(prefix) /\ SubSeq(basename, 1, Len(prefix)) = prefix

\* a validation that does not look at the first character on its own
ValidIfnameAnyFirst(ifname) ==
    /\ Len(ifname) # 0
    /\ Len(ifname) < IFNAMSIZ
    /\ \A i \in 1..Len(ifname) : IsAlnum(ifname[i]) \/ ifname[i] \in {"-", "_", "."}

\* __ni_suse_valid_ifname
__ni_suse_valid_ifname(ifname) ==
    /\ Len(ifname) # 0
    /\ Len(ifname) < IFNAMSIZ
    /\ IsAlnum(ifname[1])
    /\ \A i \in 2..Len(ifname) : IsAlnum(ifname[i]) \/ ifname[i] \in {"-", "_", "."}

\* ---- sysconfig access ----
Has(sc, name) == name \in DOMAIN sc

\* ni_sysconfig_get_boolean: ret says the variable is there, enabled what it says
ni_sysconfig_get_boolean(sc, name) ==
    [ret |-> Has(sc, name),
     enabled |-> Has(sc, name) /\ \E t \in {S_on, S_true, S_yes} : StrCaseEq(sc[name], t)]

\* the suffixes of indexed variables ("IPADDR", "IPADDR_0", ...) the model's
\* files use, in the order ni_sysconfig_find_matching reports them
IndexedSuffixes == <<"", "_0", "_1">>

RECURSIVE MatchingFrom(_, _, _)
MatchingFrom(sc, basename, i) ==
    IF i > Len(IndexedSuffixes) THEN <<>>
    ELSE (IF Has(sc, basename \o IndexedSuffixes[i]) THEN <<IndexedSuffixes[i]>> ELSE <<>>)
         \o MatchingFrom(sc, basename, i + 1)

\* ni_sysconfig_find_matching(sc, basename, &names): the suffixes of the names
ni_sysconfig_find_matching(sc, basename) == MatchingFrom(sc, basename, 1)

\* __find_indexed_variable(sc, basename, suffix) != NULL
__find_indexed_variable(sc, basename, suffix) ==
    Has(sc, basename \o suffix) /\ sc[basename \o suffix] # <<>>

\* all decimal digits, at least one
IsNumber(s) == s # <<>> /\ \A i \in 1..Len(s) : IsDigit(s[i])

\* ni_parse_int(s, &value, 0) >= 0, for decimal texts
ni_parse_int_ok(s) == IsNumber(s)

\* ni_parse_double(s, &value) >= 0: digits, optionally a '.' and digits
ni_parse_double_ok(s) ==
    \E dot \in {strchr(s, ".")} :
        IF dot = 0 THEN IsNumber(s)
        ELSE IsNumber(SubSeq(s, 1, dot - 1)) /\ IsNumber(SubSeq(s, dot + 1, Len(s)))

\* ---- the device under translation ----
NoBridge == [stp |-> FALSE, priority |-> <<>>, ageing_time |-> <<>>,
             forward_delay |-> <<>>, hello_time |-> <<>>, max_age |-> <<>>]
NoVlan == [physdev_name |-> <<>>, tag |-> 0]
NoDhcp4 == [enabled |-> FALSE, hostname |-> <<>>, client_id |-> <<>>,
            vendor_class |-> <<>>, acquire_timeout |-> 0, lease_time |-> 0]

\* ni_compat_netdev_new (lines 401-410)
ni_compat_netdev_new(ifname) ==
    [name |-> ifname, type |-> NI_IFTYPE_UNKNOWN, control |-> "manual",
     slaves |-> <<>>, bond_options |-> <<>>,
     bridge |-> NoBridge, ports |-> <<>>, vlan |-> NoVlan,
     addrs |-> <<>>, routes |-> <<>>,
     dhcp4 |-> NoDhcp4, dhcp6_enabled |-> FALSE, calls |-> <<>>]

\* `calls` is the record of the calls made on the device, in their order:
\* the recognizers tried and the address configuration functions run
Called(compat, what) == [compat EXCEPT !.calls = Append(@, what)]

Result(ret, compat, errs) == [ret |-> ret, compat |-> compat, errs |-> errs]

\* try_loopback (lines 458-469)
try_loopback(sc, compat) ==
    IF compat.name # S_lo THEN Result(FALSE, compat, {})
    ELSE Result(TRUE, [compat EXCEPT !.type = NI_IFTYPE_LOOPBACK], {})

\* try_ethernet (lines 474-494)
try_ethernet(sc, compat) ==
    IF Has(sc, "ETHTOOL_OPTIONS")
    THEN Result(TRUE, [compat EXCEPT !.type = NI_IFTYPE_ETHERNET], {})
    ELSE Result(TRUE, compat, {})

\* try_add_bonding_slave (lines 504-520)
try_add_bonding_slave(sc, dev, suffix) ==
    IF ~__find_indexed_variable(sc, "BONDING_SLAVE", suffix)
    THEN [ret |-> FALSE, dev |-> dev]
    ELSE [ret |-> TRUE,
          dev |-> [dev EXCEPT !.type = NI_IFTYPE_BOND,
                              !.slaves = Append(@, sc["BONDING_SLAVE" \o suffix])]]

\* __process_indexed_variables(sc, dev, "BONDING_SLAVE", try_add_bonding_slave)
\* (lines 1241-1261)
RECURSIVE ProcessBondingSlaves(_, _, _, _)
ProcessBondingSlaves(sc, dev, names, i) ==
    IF i > Len(names) THEN [ret |-> TRUE, dev |-> dev]
    ELSE The({ IF ~r.ret THEN [ret |-> FALSE, dev |-> r.dev]
               ELSE ProcessBondingSlaves(sc, r.dev, names, i + 1)
               : r \in {try_add_bonding_slave(sc, dev, names[i])} })

__process_indexed_bonding_slaves(sc, dev) ==
    The({ IF names = <<>> THEN [ret |-> FALSE, dev |-> dev]
          ELSE ProcessBondingSlaves(sc, dev, names, 1)
          : names \in {ni_sysconfig_find_matching(sc, "BONDING_SLAVE")} })

\* one "key=value" of BONDING_MODULE_OPTS: [ok, key, val]
BondingOption(tok) ==
    The({ IF eq = 0 THEN [ok |-> FALSE, key |-> tok, val |-> <<>>]
          ELSE [ok |-> eq > 1 /\ eq < Len(tok),
                key |-> SubSeq(tok, 1, eq - 1), val |-> SubSeq(tok, eq + 1, Len(tok))]
          : eq \in {strchr(tok, "=")} })

\* try_set_bonding_options (lines 522-558); ni_bonding_set_option takes every
\* non-empty key and value
RECURSIVE BondingOptionsFrom(_, _, _)
BondingOptionsFrom(dev, temp, i) ==
    IF i > Len(temp) THEN Result(TRUE, dev, {})
    ELSE The({ IF ~o.ok THEN Result(FALSE, dev, {"bonding options"})
               ELSE The({ BondingOptionsFrom(d, temp, i + 1)
                          : d \in {[dev EXCEPT !.bond_options = Append(@, <<o.key, o.val>>)]} })
               : o \in {BondingOption(temp[i])} })

try_set_bonding_options(dev, options) ==
    The({ BondingOptionsFrom(dev, temp, 1) : temp \in {strtok_all(options, {" ", "\t"})} })

\* the tail of try_bonding: options and validation (lines 573-584);
\* `validate` is what ni_bonding_validate returns (<<>> for NULL)
BondingOptionsAndValidate(sc, dev, validate) ==
    The({ IF ~o.ret THEN o
          ELSE IF validate # <<>> THEN Result(FALSE, o.compat, {"bonding validation"})
          ELSE Result(TRUE, o.compat, {})
          : o \in {IF Has(sc, "BONDING_MODULE_OPTS")
                   THEN try_set_bonding_options(dev, sc["BONDING_MODULE_OPTS"])
                   ELSE Result(TRUE, dev, {})} })

\* try_bonding (lines 560-585)
try_bonding(sc, compat, validate) ==
    IF ~ni_sysconfig_get_boolean(sc, "BONDING_MASTER").enabled
    THEN Result(FALSE, compat, {})
    ELSE The({ IF ~s.ret THEN Result(FALSE, s.dev, {})
               ELSE BondingOptionsAndValidate(sc, s.dev, validate)
               : s \in {__process_indexed_bonding_slaves(sc, compat)} })

\* ---- bridge ----
\* priority and path cost of a port that were not set (ni_bridge_port_new)
NI_BRIDGE_VALUE_NOT_SET == 0 - 1

\* BRIDGE_STP (lines 604-615)
BridgeStp(sc, dev) ==
    IF ~Has(sc, "BRIDGE_STP") THEN Result(TRUE, dev, {})
    ELSE IF StrCaseEq(sc["BRIDGE_STP"], S_off) \/ StrCaseEq(sc["BRIDGE_STP"], S_no)
    THEN Result(TRUE, [dev EXCEPT !.bridge.stp = TRUE], {})
    ELSE IF StrCaseEq(sc["BRIDGE_STP"], S_on) \/ StrCaseEq(sc["BRIDGE_STP"], S_yes)
    THEN Result(TRUE, [dev EXCEPT !.bridge.stp = FALSE], {})
    ELSE Result(FALSE, dev, {"BRIDGE_STP"})

\* the numeric parameters in the order they are read (lines 617-654):
\* variable, field, parsed by ni_parse_int (TRUE) or ni_parse_double
BridgeScalarKeys ==
    << <<"BRIDGE_PRIORITY", "priority", TRUE>>,
       <<"BRIDGE_AGEINGTIME", "ageing_time", FALSE>>,
       <<"BRIDGE_FORWARDDELAY", "forward_delay", FALSE>>,
       <<"BRIDGE_HELLOTIME", "hello_time", FALSE>>,
       <<"BRIDGE_MAXAGE", "max_age", FALSE>> >>

RECURSIVE BridgeScalars(_, _, _)
BridgeScalars(sc, dev, k) ==
    IF k > Len(BridgeScalarKeys) THEN Result(TRUE, dev, {})
    ELSE The({ IF ~Has(sc, key[1]) THEN BridgeScalars(sc, dev, k + 1)
               ELSE IF ~(IF key[3] THEN ni_parse_int_ok(sc[key[1]])
                                   ELSE ni_parse_double_ok(sc[key[1]]))
               THEN Result(FALSE, dev, {key[1]})
               ELSE The({ BridgeScalars(sc, d, k + 1)
                          : d \in {[dev EXCEPT !.bridge[key[2]] = sc[key[1]]]} })
               : key \in {BridgeScalarKeys[k]} })

\* BRIDGE_PORTS (lines 656-675)
RECURSIVE BridgePortsFrom(_, _, _)
BridgePortsFrom(dev, names, i) ==
    IF i > Len(names) THEN Result(TRUE, dev, {})
    ELSE IF ~__ni_suse_valid_ifname(names[i]) THEN Result(FALSE, dev, {"BRIDGE_PORTS"})
    ELSE The({ BridgePortsFrom(d, names, i + 1)
               : d \in {[dev EXCEPT !.ports =
                            Append(@, [ifname |-> names[i],
                                       priority |-> NI_BRIDGE_VALUE_NOT_SET,
                                       path_cost |-> NI_BRIDGE_VALUE_NOT_SET])]} })

BridgePorts(sc, dev) ==
    IF ~Has(sc, "BRIDGE_PORTS") THEN Result(TRUE, dev, {})
    ELSE The({ BridgePortsFrom(dev, names, 1)
               : names \in {strtok_all(sc["BRIDGE_PORTS"], {" ", "\t"})} })

\* BRIDGE_PORTPRIORITIES (lines 677-700): token k (from 1), port i (from 0)
RECURSIVE BridgePortPrioritiesFrom(_, _, _, _)
BridgePortPrioritiesFrom(dev, toks, k, i) ==
    IF ~(k <= Len(toks) /\ i < Len(dev.ports)) THEN Result(TRUE, dev, {})
    ELSE IF toks[k] = S_dash THEN BridgePortPrioritiesFrom(dev, toks, k + 1, i + 1)
    ELSE IF ~ni_parse_int_ok(toks[k]) THEN Result(FALSE, dev, {"BRIDGE_PORTPRIORITIES"})
    ELSE The({ BridgePortPrioritiesFrom(d, toks, k + 1, i + 1)
               : d \in {[dev EXCEPT !.ports[i + 1].priority = U32Nat(strtoul(toks[k]))]} })

\* the priorities given to the ports one place off
BridgePortPrioritiesShifted(sc, dev) ==
    IF ~Has(sc, "BRIDGE_PORTPRIORITIES") THEN Result(TRUE, dev, {})
    ELSE The({ BridgePortPrioritiesFrom(dev, toks, 1, 1)
               : toks \in {strtok_all(sc["BRIDGE_PORTPRIORITIES"], {" ", "\t"})} })

BridgePortPriorities(sc, dev) ==
    IF ~Has(sc, "BRIDGE_PORTPRIORITIES") THEN Result(TRUE, dev, {})
    ELSE The({ BridgePortPrioritiesFrom(dev, toks, 1, 0)
               : toks \in {strtok_all(sc["BRIDGE_PORTPRIORITIES"], {" ", "\t"})} })

\* BRIDGE_PATHCOSTS (lines 702-725): the port is ports.data[i++], and the
\* loop header adds one more to i
RECURSIVE BridgePathCostsFrom(_, _, _, _)
BridgePathCostsFrom(dev, toks, k, i) ==
    IF ~(k <= Len(toks) /\ i < Len(dev.ports)) THEN Result(TRUE, dev, {})
    ELSE IF toks[k] = S_dash THEN BridgePathCostsFrom(dev, toks, k + 1, i + 2)
    ELSE IF ~ni_parse_int_ok(toks[k]) THEN Result(FALSE, dev, {"BRIDGE_PATHCOSTS"})
    ELSE The({ BridgePathCostsFrom(d, toks, k + 1, i + 2)
               : d \in {[dev EXCEPT !.ports[i + 1].path_cost = U32Nat(strtoul(toks[k]))]} })

BridgePathCosts(sc, dev) ==
    IF ~Has(sc, "BRIDGE_PATHCOSTS") THEN Result(TRUE, dev, {})
    ELSE The({ BridgePathCostsFrom(dev, toks, 1, 0)
               : toks \in {strtok_all(sc["BRIDGE_PATHCOSTS"], {" ", "\t"})} })

\* ni_bridge_validate (lines 727-731); `validate` is what it returns
BridgeValidate(dev, validate) ==
    IF validate # <<>> THEN Result(FALSE, dev, {"bridge validation"})
    ELSE Result(TRUE, dev, {})

\* the parts of try_bridge in the order of the code; the first that fails
\* ends the recognizer
BridgeStage(n, sc, dev, validate) ==
    CASE n = 1 -> BridgeStp(sc, dev)
      [] n = 2 -> BridgeScalars(sc, dev, 1)
      [] n = 3 -> BridgePorts(sc, dev)
      [] n = 4 -> BridgePortPriorities(sc, dev)
      [] n = 5 -> BridgePathCosts(sc, dev)
      [] n = 6 -> BridgeValidate(dev, validate)

RECURSIVE BridgeStages(_, _, _, _)
BridgeStages(n, sc, dev, validate) ==
    IF n > 6 THEN Result(TRUE, dev, {})
    ELSE The({ IF ~r.ret THEN r ELSE BridgeStages(n + 1, sc, r.compat, validate)
               : r \in {BridgeStage(n, sc, dev, validate)} })

\* try_bridge (lines 590-732)
try_bridge(sc, compat, validate) ==
    IF ~ni_sysconfig_get_boolean(sc, "BRIDGE").enabled THEN Result(FALSE, compat, {})
    ELSE The({ BridgeStages(1, sc, dev, validate)
               : dev \in {[compat EXCEPT !.type = NI_IFTYPE_BRIDGE]} })

\* ---- vlan ----
\* __try_vlan_tag_parse (lines 734-747): tag is the unsigned int as [hi, lo]
__try_vlan_tag_parse(str) ==
    IF str = <<>> \/ ~IsDigit(str[1]) THEN [ok |-> FALSE, hi |-> 0, lo |-> 0]
    ELSE The({ [ok |-> r.end = Len(str) + 1, hi |-> r.hi, lo |-> r.lo]
               : r \in {strtoul(str)} })

\* the trailing digits of a name without '.' (lines 783-786).  The loop tests
\* len, which it never changes, so it stops only at a character that is not
\* a digit: for a name of digits alone it walks into `membefore`, the bytes
\* that lie in front of the name (none: the byte in front is not a digit).
RECURSIVE ScanDigitsBack(_, _)
ScanDigitsBack(mem, pos) ==
    IF pos > 1 /\ IsDigit(mem[pos - 1]) THEN ScanDigitsBack(mem, pos - 1) ELSE pos

VlanTagFromName(name, membefore) ==
    The({ IF dot # 0 THEN SubSeq(name, dot + 1, Len(name))
          ELSE The({ SubSeq(mem, ScanDigitsBack(mem, Len(mem) + 1), Len(mem))
                     : mem \in {membefore \o name} })
          : dot \in {strrchr(name, ".")} })

\* the tag is parsed: range check and result (lines 794-810)
VlanWithTag(sc, compat, t, errtag) ==
    IF ~t.ok THEN Result(FALSE, compat, {errtag})
    ELSE IF t.hi > 0 \/ t.lo > __NI_VLAN_TAG_MAX THEN Result(FALSE, compat, {"VLAN range"})
    ELSE Result(TRUE, [compat EXCEPT !.type = NI_IFTYPE_VLAN,
                                     !.vlan = [physdev_name |-> sc["ETHERDEVICE"],
                                               tag |-> t.lo]], {})

\* try_vlan (lines 752-811)
try_vlan(sc, compat, membefore) ==
    IF ~Has(sc, "ETHERDEVICE") THEN Result(FALSE, compat, {})
    ELSE IF compat.name = sc["ETHERDEVICE"] THEN Result(FALSE, compat, {"ETHERDEVICE self-reference"})
    ELSE IF Has(sc, "VLAN_ID")
    THEN The({ VlanWithTag(sc, compat, t, "VLAN_ID")
               : t \in {__try_vlan_tag_parse(sc["VLAN_ID"])} })
    ELSE The({ VlanWithTag(sc, compat, t, "vlan-tag from interface name")
               : t \in {__try_vlan_tag_parse(VlanTagFromName(compat.name, membefore))} })

\* ---- wireless, tunnel ----
\* try_wireless (lines 817-829)
try_wireless(sc, compat) ==
    IF ~Has(sc, "WIRELESS_ESSID") THEN Result(FALSE, compat, {})
    ELSE Result(TRUE, [compat EXCEPT !.type = NI_IFTYPE_WIRELESS], {})

__tunnel_types ==
    << <<S_tun, NI_IFTYPE_TUN>>, <<S_tap, NI_IFTYPE_TAP>>, <<S_sit, NI_IFTYPE_SIT>>,
       <<S_gre, NI_IFTYPE_GRE>>, <<S_ipip, NI_IFTYPE_TUNNEL>>,
       <<S_ip6tnl, NI_IFTYPE_TUNNEL6>> >>

\* try_tunnel (lines 834-861): the type stored is the pointer `value`
\* converted to ni_iftype_t; `cast` is what that conversion gives
try_tunnel(sc, compat, cast) ==
    IF Has(sc, "TUNNEL") /\ \E i \in 1..Len(__tunnel_types) : __tunnel_types[i][1] = sc["TUNNEL"]
    THEN Result(TRUE, [compat EXCEPT !.type = cast], {})
    ELSE Result(TRUE, compat, {})

\* ---- addresses ----
NoPrefix == 0 - 1
NI_IFWORKER_INFINITE_TIMEOUT == 0 - 1

\* ni_sockaddr_prefix_parse: "addr" or "addr/prefixlen"
ni_sockaddr_prefix_parse(s) ==
    The({ IF sl = 0
          THEN The({ [ok |-> a.ok, addr |-> a.addr, prefixlen |-> NoPrefix]
                     : a \in {ni_sockaddr_parse(s, AF_UNSPEC)} })
          ELSE The({ [ok |-> a.ok, addr |-> a.addr,
                      prefixlen |-> U32Nat(strtoul(SubSeq(s, sl + 1, Len(s))))]
                     : a \in {ni_sockaddr_parse(SubSeq(s, 1, sl - 1), AF_UNSPEC)} })
          : sl \in {strchr(s, "/")} })

\* the prefix length of an address written without one (lines 892-911)
IpaddrPrefixlen(sc, suffix, local_addr) ==
    IF __find_indexed_variable(sc, "PREFIXLEN", suffix)
    THEN U32Nat(strtoul(sc["PREFIXLEN" \o suffix]))
    ELSE IF /\ local_addr.family = AF_INET
            /\ __find_indexed_variable(sc, "NETMASK", suffix)
            /\ ni_sockaddr_parse(sc["NETMASK" \o suffix], AF_INET).ok
    THEN ni_sockaddr_netmask_bits(ni_sockaddr_parse(sc["NETMASK" \o suffix], AF_INET).addr)
    ELSE ni_af_address_length(local_addr.family) * 8

\* BROADCAST of an IPv4 address (lines 914-927): [addr, errs]
IpaddrBroadcast(sc, suffix, family) ==
    IF family # AF_INET \/ ~__find_indexed_variable(sc, "BROADCAST", suffix)
    THEN [addr |-> NullAddr, errs |-> {}]
    ELSE The({ IF b.addr.family # family
               THEN [addr |-> NullAddr, errs |-> {"BROADCAST wrong address family"}]
               ELSE [addr |-> b.addr, errs |-> {}]
               : b \in {ni_sockaddr_parse(sc["BROADCAST" \o suffix], AF_INET)} })

\* REMOTE_IPADDR (lines 929-937): [addr, errs]
IpaddrRemote(sc, suffix, family) ==
    IF ~__find_indexed_variable(sc, "REMOTE_IPADDR", suffix)
    THEN [addr |-> NullAddr, errs |-> {}]
    ELSE The({ IF p.addr.family # family
               THEN [addr |-> NullAddr, errs |-> {"REMOTE_IPADDR wrong address family"}]
               ELSE [addr |-> p.addr, errs |-> {}]
               : p \in {ni_sockaddr_parse(sc["REMOTE_IPADDR" \o suffix], AF_UNSPEC)} })

\* ni_address_new and the overrides (lines 913-939)
IpaddrNew(sc, suffix, local_addr, prefixlen, list) ==
    The({ [ret |-> TRUE,
           list |-> Append(list, [family |-> local_addr.family, prefixlen |-> prefixlen,
                                  local_addr |-> local_addr, bcast_addr |-> b.addr,
                                  peer_addr |-> p.addr]),
           errs |-> b.errs \cup p.errs]
          : b \in {IpaddrBroadcast(sc, suffix, local_addr.family)},
            p \in {IpaddrRemote(sc, suffix, local_addr.family)} })

\* __get_ipaddr (lines 873-940): [ret, list, errs]
__get_ipaddr(sc, suffix, list) ==
    IF ~__find_indexed_variable(sc, "IPADDR", suffix)
    THEN [ret |-> TRUE, list |-> list, errs |-> {}]
    ELSE The({ IF ~a.ok THEN [ret |-> FALSE, list |-> list, errs |-> {"IPADDR"}]
               ELSE IF a.prefixlen # NoPrefix
               THEN IpaddrNew(sc, suffix, a.addr, a.prefixlen, list)
               ELSE The({ IpaddrNew(sc, suffix, a.addr, plen, list)
                          : plen \in {IpaddrPrefixlen(sc, suffix, a.addr)} })
               : a \in {ni_sockaddr_prefix_parse(sc["IPADDR" \o suffix])} })

\* the loop over the IPADDR variables (lines 959-962)
RECURSIVE GetIpaddrs(_, _, _, _, _)
GetIpaddrs(sc, names, i, list, errs) ==
    IF i > Len(names) THEN [ret |-> TRUE, list |-> list, errs |-> errs]
    ELSE The({ IF ~r.ret THEN [ret |-> FALSE, list |-> r.list, errs |-> errs \cup r.errs]
               ELSE The({ GetIpaddrs(sc, names, i + 1, r.list, e) : e \in {errs \cup r.errs} })
               : r \in {__get_ipaddr(sc, names[i], list)} })

\* ni_address_list_find(list, &addr) != NULL
ni_address_list_find(list, addr) ==
    \E i \in 1..Len(list) : ni_address_equal(list[i].local_addr, addr)

\* the loopback addresses added to "lo" (lines 967-977)
LoopbackAddrs(name, addrs) ==
    IF name # S_lo THEN addrs
    ELSE The({ IF ni_address_list_find(with4, V6(0, 0, 0, 0, 1)) THEN with4
               ELSE Append(with4, [family |-> AF_INET6, prefixlen |-> 128,
                                   local_addr |-> V6(0, 0, 0, 0, 1),
                                   bcast_addr |-> NullAddr, peer_addr |-> NullAddr])
               : with4 \in {IF ni_address_list_find(addrs, V4(127, 0, 0, 1)) THEN addrs
                            ELSE Append(addrs, [family |-> AF_INET, prefixlen |-> 8,
                                                local_addr |-> V4(127, 0, 0, 1),
                                                bcast_addr |-> NullAddr,
                                                peer_addr |-> NullAddr])} })

\* ni_address_can_reach: the gateway lies in the subnet of the address
ni_address_can_reach(ap, gw) ==
    ap.family = gw.family /\ ni_address_prefix_match(ap.prefixlen, ap.local_addr, gw)

\* a global route taken without looking at where its gateway lies
GlobalRouteAnyGateway(rp, name, addrs) ==
    CASE rp.family = AF_INET -> rp.device = NoDevice \/ rp.device = name
      [] rp.family = AF_INET6 -> rp.device # NoDevice /\ rp.device = name
      [] OTHER -> FALSE

\* a global route is taken for the device (lines 989-1016)
GlobalRouteApplies(rp, name, addrs) ==
    CASE rp.family = AF_INET ->
            /\ (rp.device = NoDevice \/ rp.device = name)
            /\ \E i \in 1..Len(addrs) :
                  /\ addrs[i].family = AF_INET
                  /\ rp.gateway.family = AF_INET
                  /\ ni_address_can_reach(addrs[i], rp.gateway)
      [] rp.family = AF_INET6 -> rp.device # NoDevice /\ rp.device = name
      [] OTHER -> FALSE

RECURSIVE GlobalRoutesFor(_, _, _, _)
GlobalRoutesFor(global_routes, i, name, addrs) ==
    IF i > Len(global_routes) THEN <<>>
    ELSE (IF GlobalRouteApplies(global_routes[i], name, addrs)
          THEN <<global_routes[i]>> ELSE <<>>)
         \o GlobalRoutesFor(global_routes, i + 1, name, addrs)

\* ni_address_list_dedup: of equal addresses the first stays
SameAddr(a, b) ==
    /\ a.family = b.family
    /\ a.prefixlen = b.prefixlen
    /\ ni_address_equal(a.local_addr, b.local_addr)
    /\ ni_address_equal(a.peer_addr, b.peer_addr)

RECURSIVE ni_address_list_dedup(_)
ni_address_list_dedup(list) ==
    IF list = <<>> THEN <<>>
    ELSE The({ IF \E i \in 1..Len(front) : SameAddr(front[i], list[Len(list)])
               THEN front ELSE Append(front, list[Len(list)])
               : front \in {ni_address_list_dedup(SubSeq(list, 1, Len(list) - 1))} })

\* where a file may be: [exists, readable, lines]
NoFile == [exists |-> FALSE, readable |-> FALSE, lines |-> <<>>]

\* ifroute-<name> (lines 979-984): [routes, errs]
IfrouteRoutes(ifroute, routes) ==
    IF ~ifroute.exists THEN [routes |-> routes, errs |-> {}]
    ELSE The({ [routes |-> r.ret,
                errs |-> IF r.ret = <<>> THEN {"warn: unable to parse ifroute"} ELSE {}]
               : r \in {__ni_suse_read_routes(ifroute)} })

\* routes and dedup, the addresses being read (lines 966-1021)
StaticRoutes(compat, addrs, ifroute, global_routes, errs) ==
    The({ Result(TRUE,
                 [compat EXCEPT !.addrs = ni_address_list_dedup(la),
                                !.routes = r.routes \o
                                           GlobalRoutesFor(global_routes, 1, compat.name, la)],
                 errs \cup r.errs)
          : la \in {LoopbackAddrs(compat.name, addrs)},
            r \in {IfrouteRoutes(ifroute, compat.routes)} })

\* __ni_suse_addrconf_static (lines 945-1022); env = [dhcp_defaults,
\* global_routes] are the globals, ifroute the file next to the ifcfg file
__ni_suse_addrconf_static(sc, compat, ifroute, env) ==
    The({ IF names = <<>> THEN Result(FALSE, c, {})
          ELSE The({ IF ~a.ret THEN Result(FALSE, [c EXCEPT !.addrs = a.list], a.errs)
                     ELSE StaticRoutes(c, a.list, ifroute, env.global_routes, a.errs)
                     : a \in {GetIpaddrs(sc, names, 1, c.addrs, {})} })
          : names \in {ni_sysconfig_find_matching(sc, "IPADDR")},
            c \in {Called(compat, "__ni_suse_addrconf_static")} })

\* ---- dhcp ----
\* ni_sysconfig_get_integer(sc, name, &uint): the variable is there, and
\* its value as an unsigned int [hi, lo]
ni_sysconfig_get_integer(sc, name) ==
    IF ~Has(sc, name) THEN [ret |-> FALSE, hi |-> 0, lo |-> 0]
    ELSE The({ [ret |-> TRUE, hi |-> r.hi, lo |-> r.lo] : r \in {strtoul(sc[name])} })

\* the text options (lines 1033-1038)
Dhcp4TextOptions(sc, dhcp4) ==
    [dhcp4 EXCEPT
        !.hostname = IF Has(sc, "DHCLIENT_HOSTNAME_OPTION")
                        /\ ~StrCaseEq(sc["DHCLIENT_HOSTNAME_OPTION"], S_auto)
                     THEN sc["DHCLIENT_HOSTNAME_OPTION"] ELSE @,
        !.client_id = IF Has(sc, "DHCLIENT_CLIENT_ID") THEN sc["DHCLIENT_CLIENT_ID"] ELSE @,
        !.vendor_class = IF Has(sc, "DHCLIENT_VENDOR_CLASS_ID")
                         THEN sc["DHCLIENT_VENDOR_CLASS_ID"] ELSE @]

\* __ni_suse_addrconf_dhcp4_options (lines 1027-1054)
__ni_suse_addrconf_dhcp4_options(sc, dhcp4) ==
    The({ [Dhcp4TextOptions(sc, dhcp4) EXCEPT
              !.acquire_timeout =
                  IF ~w.ret THEN @
                  ELSE IF w.hi = 0 /\ w.lo = 0 THEN NI_IFWORKER_INFINITE_TIMEOUT
                  ELSE U32Nat(w),
              !.lease_time =
                  IF ~l.ret THEN @
                  ELSE IF l.hi >= Limb \div 2 THEN NI_IFWORKER_INFINITE_TIMEOUT
                  ELSE U32Nat(l)]
          : w \in {ni_sysconfig_get_integer(sc, "DHCLIENT_WAIT_AT_BOOT")},
            l \in {ni_sysconfig_get_integer(sc, "DHCLIENT_LEASE_TIME")} })

\* the global dhcp defaults as the code sees them: NULL, or what the
\* pointer leads to
NoDefaults == [null |-> TRUE, sc |-> <<>>]
Defaults(sc) == [null |-> FALSE, sc |-> sc]

\* the two layers the other way round: the file first, the defaults on top
AddrconfDhcp4DefaultsLast(sc, compat, dhcp_defaults) ==
    IF compat.dhcp4.enabled THEN Called(compat, "__ni_suse_addrconf_dhcp4")
    ELSE The({ [Called(compat, "__ni_suse_addrconf_dhcp4") EXCEPT !.dhcp4 =
                   [(IF dhcp_defaults.null THEN d
                     ELSE __ni_suse_addrconf_dhcp4_options(dhcp_defaults.sc, d))
                    EXCEPT !.enabled = TRUE]]
               : d \in {__ni_suse_addrconf_dhcp4_options(sc, compat.dhcp4)} })

\* __ni_suse_addrconf_dhcp4 (lines 1092-1106)
__ni_suse_addrconf_dhcp4(sc, compat, dhcp_defaults) ==
    IF compat.dhcp4.enabled THEN Called(compat, "__ni_suse_addrconf_dhcp4")
    ELSE The({ [Called(compat, "__ni_suse_addrconf_dhcp4") EXCEPT !.dhcp4 =
                   [__ni_suse_addrconf_dhcp4_options(sc, d) EXCEPT !.enabled = TRUE]]
               : d \in {IF dhcp_defaults.null THEN compat.dhcp4
                        ELSE __ni_suse_addrconf_dhcp4_options(dhcp_defaults.sc,
                                                              compat.dhcp4)} })

\* __ni_suse_addrconf_dhcp6 (lines 1108-1122)
__ni_suse_addrconf_dhcp6(sc, compat, dhcp_defaults) ==
    [Called(compat, "__ni_suse_addrconf_dhcp6") EXCEPT !.dhcp6_enabled = TRUE]

\* __ni_suse_addrconf_autoip4 (lines 1124-1132)
__ni_suse_addrconf_autoip4(sc, compat) == Called(compat, "__ni_suse_addrconf_autoip4")

\* ---- BOOTPROTO ----
\* one token s of the value (lines 1169-1185): [compat, errs]
BootprotoToken(value, s, sc, compat, dhcp_defaults) ==
    IF StrCaseEq(s, S_dhcp)
    THEN The({ [compat |-> __ni_suse_addrconf_dhcp6(sc, c4, dhcp_defaults), errs |-> {}]
               : c4 \in {__ni_suse_addrconf_dhcp4(sc, compat, dhcp_defaults)} })
    ELSE IF value = S_dhcp4
    THEN [compat |-> __ni_suse_addrconf_dhcp4(sc, compat, dhcp_defaults), errs |-> {}]
    ELSE IF value = S_dhcp6
    THEN [compat |-> __ni_suse_addrconf_dhcp6(sc, compat, dhcp_defaults), errs |-> {}]
    ELSE IF value = S_autoip
    THEN [compat |-> __ni_suse_addrconf_autoip4(sc, compat), errs |-> {}]
    ELSE [compat |-> compat, errs |-> {"warn: unknown BOOTPROTO value"}]

RECURSIVE BootprotoTokens(_, _, _, _, _, _, _)
BootprotoTokens(value, toks, i, sc, compat, dhcp_defaults, errs) ==
    IF i > Len(toks) THEN [compat |-> compat, errs |-> errs]
    ELSE The({ The({ BootprotoTokens(value, toks, i + 1, sc, t.compat, dhcp_defaults, e)
                     : e \in {errs \cup t.errs} })
               : t \in {BootprotoToken(value, toks[i], sc, compat, dhcp_defaults)} })

\* the value BOOTPROTO is taken to have (lines 1141-1144)
BootprotoValue(sc, name) ==
    IF ~Has(sc, "BOOTPROTO") THEN S_static
    ELSE IF sc["BOOTPROTO"] = <<>> \/ name = S_lo THEN S_static
    ELSE sc["BOOTPROTO"]

\* static first, the dynamic tokens after it
BootprotoStaticFirst(value, sc, compat, ifroute, env) ==
    The({ The({ Result(TRUE, t.compat, t.errs \cup s.errs)
                : t \in {BootprotoTokens(value, strtok_all(value, {"+"}), 1, sc, s.compat,
                                         env.dhcp_defaults, {})} })
          : s \in {__ni_suse_addrconf_static(sc, compat, ifroute, env)} })

\* the dynamic tokens, then static (lines 1166-1191); what
\* __ni_suse_addrconf_static returns is not looked at
BootprotoDynamic(value, sc, compat, ifroute, env) ==
    The({ The({ Result(TRUE, s.compat, t.errs \cup s.errs)
                : s \in {__ni_suse_addrconf_static(sc, t.compat, ifroute, env)} })
          : t \in {BootprotoTokens(value, strtok_all(value, {"+"}), 1, sc, compat,
                                   env.dhcp_defaults, {})} })

\* __ni_suse_bootproto (lines 1134-1192)
__ni_suse_bootproto(sc, compat, ifroute, env) ==
    The({ IF StrCaseEq(value, S_none) \/ StrCaseEq(value, S_ibft)
          THEN Result(TRUE, compat, {})
          ELSE IF StrCaseEq(value, S_6to4) \/ StrCaseEq(value, S_static)
          THEN The({ Result(TRUE, s.compat, s.errs)
                     : s \in {__ni_suse_addrconf_static(sc, compat, ifroute, env)} })
          ELSE BootprotoDynamic(value, sc, compat, ifroute, env)
          : value \in {BootprotoValue(sc, compat.name)} })

\* ---- an ifcfg file ----
\* __ni_suse_startmode (lines 415-453): the mode of the control element
__ni_suse_control_params ==
    << <<S_manual, "manual">>, <<S_auto, "boot">>, <<S_boot, "boot">>,
       <<S_onboot, "boot">>, <<S_on, "boot">>, <<S_hotplug, "boot">>,
       <<S_ifplugd, "ignore">>, <<S_nfsroot, "boot">>, <<S_off, "off">> >>

__ni_suse_startmode(sc) ==
    IF Has(sc, "STARTMODE") /\ \E i \in 1..Len(__ni_suse_control_params) :
                                  __ni_suse_control_params[i][1] = sc["STARTMODE"]
    THEN __ni_suse_control_params[
             CHOOSE i \in 1..Len(__ni_suse_control_params) :
                 __ni_suse_control_params[i][1] = sc["STARTMODE"]][2]
    ELSE __ni_suse_control_params[1][2]

\* What __ni_suse_read_interface is called on:
\*   basename, ifname   the file's name and the name passed in (<<>>: NULL)
\*   parsable, sc       whether ni_sysconfig_read reads it, and what it reads
\*   ifroute            the ifroute-<name> file next to it
\*   bonding_validate, bridge_validate
\*                      what ni_bonding_validate / ni_bridge_validate say of
\*                      the device (<<>>: NULL, nothing wrong)
\*   cast               what the conversion of the TUNNEL text pointer to
\*                      ni_iftype_t gives
\*   membefore          the bytes in front of the device name in memory
\* the recognizers in the order of the chain (lines 1216-1222)
Recognizers ==
    <<"try_loopback", "try_bonding", "try_bridge", "try_vlan", "try_wireless",
      "try_tunnel", "try_ethernet">>

\* recognizer k of the chain
Try(k, in, compat) ==
    CASE k = 1 -> try_loopback(in.sc, compat)
      [] k = 2 -> try_bonding(in.sc, compat, in.bonding_validate)
      [] k = 3 -> try_bridge(in.sc, compat, in.bridge_validate)
      [] k = 4 -> try_vlan(in.sc, compat, in.membefore)
      [] k = 5 -> try_wireless(in.sc, compat)
      [] k = 6 -> try_tunnel(in.sc, compat, in.cast)
      [] k = 7 -> try_ethernet(in.sc, compat)

\* a chain that goes on after a recognizer has returned TRUE
RECURSIVE TryChainAll(_, _, _, _)
TryChainAll(k, in, compat, errs) ==
    IF k > 7 THEN [compat |-> compat, errs |-> errs, matched |-> 0]
    ELSE The({ The({ [nx EXCEPT !.matched = IF r.ret THEN k ELSE @]
                     : nx \in {TryChainAll(k + 1, in, r.compat, errs \cup r.errs)} })
               : r \in {Try(k, in, Called(compat, Recognizers[k]))} })

\* the chain from recognizer k on: the first that returns TRUE ends it
\* (matched: which one that was, 0 for none)
RECURSIVE TryChain(_, _, _, _)
TryChain(k, in, compat, errs) ==
    IF k > 7 THEN [compat |-> compat, errs |-> errs, matched |-> 0]
    ELSE The({ IF r.ret THEN [compat |-> r.compat, errs |-> errs \cup r.errs, matched |-> k]
               ELSE The({ TryChain(k + 1, in, r.compat, e) : e \in {errs \cup r.errs} })
               : r \in {Try(k, in, Called(compat, Recognizers[k]))} })

\* __ni_suse_sysconfig_read (lines 1197-1233): it returns 0
__ni_suse_sysconfig_read(in, compat, env) ==
    The({ The({ [ret |-> 0, compat |-> b.compat, errs |-> t.errs \cup b.errs,
                 matched |-> t.matched]
                : b \in {__ni_suse_bootproto(in.sc, t.compat, in.ifroute, env)} })
          : t \in {TryChain(1, in, [compat EXCEPT !.control = __ni_suse_startmode(in.sc)],
                            {})} })

NoCompat == ni_compat_netdev_new(<<>>)
ReadNull(errs) == [null |-> TRUE, compat |-> NoCompat, errs |-> errs, matched |-> 0]

\* the device name (lines 362-374)
ReadIfname(in) ==
    IF in.ifname = <<>> THEN SubSeq(in.basename, Len(S_ifcfg) + 1, Len(in.basename))
    ELSE in.ifname

\* the file is read (lines 386-398)
ReadSysconfig(in, ifname, env) ==
    The({ IF r.ret < 0 THEN ReadNull(r.errs)
          ELSE [null |-> FALSE, compat |-> r.compat, errs |-> r.errs,
                matched |-> r.matched]
          : r \in {__ni_suse_sysconfig_read(in, ni_compat_netdev_new(ifname), env)} })

\* __ni_suse_read_interface (lines 354-399): [null, compat, errs, matched]
__ni_suse_read_interface(in, env) ==
    IF in.ifname = <<>> /\ ~__ni_suse_ifcfg_valid_prefix(in.basename, S_ifcfg)
    THEN ReadNull({"file without prefix"})
    ELSE IF in.ifname = <<>> /\ ~__ni_suse_ifcfg_valid_suffix(in.basename, Len(S_ifcfg))
    THEN ReadNull({"blacklisted file"})
    ELSE The({ IF ~__ni_suse_valid_ifname(ifname) THEN ReadNull({"suspect interface name"})
               ELSE IF ~in.parsable THEN ReadNull({"unable to parse"})
               ELSE ReadSysconfig(in, ifname, env)
               : ifname \in {ReadIfname(in)} })

\* ---- the files the translation is run on ----
EmptySc == <<>>

IfrouteOk  == [exists |-> TRUE, readable |-> TRUE,
               lines |-> <<Line(<<S_net4cidr, S_gw4, S_dash, S_dash>>)>>]
IfrouteBad == [exists |-> TRUE, readable |-> TRUE,
               lines |-> <<Line(<<S_net4cidr, S_gw4, S_dash, S_dash>>),
                           Line(<<S_bogus, S_gw4>>)>>]

\* a file ifcfg-<name>
Ifcfg(name, sc) ==
    [basename |-> S_ifcfg \o name, parsable |-> TRUE, sc |-> sc, ifroute |-> NoFile,
     bonding_validate |-> <<>>, bridge_validate |-> <<>>]

ScStatic == ("STARTMODE" :> S_auto) @@ ("BOOTPROTO" :> S_static) @@ ("IPADDR" :> S_addr4p)
ScBond   == ("BONDING_MASTER" :> S_yes) @@ ("BONDING_SLAVE_0" :> S_eth0)
            @@ ("BONDING_SLAVE_1" :> S_eth1) @@ ("BOOTPROTO" :> S_none)
ScBridge == ("BRIDGE" :> S_yes) @@ ("BRIDGE_PORTS" :> S_ports_ok) @@ ("IPADDR" :> S_addr4p)
ScVlan   == ("ETHERDEVICE" :> S_eth0) @@ ("IPADDR" :> S_addr4p)

F_eth0         == Ifcfg(S_eth0, ScStatic)
F_eth0_routes  == [Ifcfg(S_eth0, ScStatic) EXCEPT !.ifroute = IfrouteOk]
F_eth0_badrt   == [Ifcfg(S_eth0, ScStatic) EXCEPT !.ifroute = IfrouteBad]
F_eth1_dhcp    == Ifcfg(S_eth1, ("BOOTPROTO" :> S_dhcp) @@ ("DHCLIENT_HOSTNAME_OPTION" :> S_host_if))
F_eth1_ethtool == Ifcfg(S_eth1, ("ETHTOOL_OPTIONS" :> S_ethtool) @@ ("BOOTPROTO" :> S_dhcp4_dhcp6))
F_lo           == Ifcfg(S_lo, ("BONDING_MASTER" :> S_yes) @@ ("BRIDGE" :> S_yes)
                              @@ ("BOOTPROTO" :> S_dhcp))
F_bond         == Ifcfg(S_bond0, ScBond @@ ("BONDING_MODULE_OPTS" :> S_mode_ab))
F_bond_noval   == Ifcfg(S_bond0, ScBond @@ ("BONDING_MODULE_OPTS" :> S_mode_noval))
F_bond_noeq    == Ifcfg(S_bond0, ScBond @@ ("BONDING_MODULE_OPTS" :> S_noeq))
F_bond_invalid == [Ifcfg(S_bond0, ScBond) EXCEPT !.bonding_validate = S_e_bondmode]
F_br           == Ifcfg(S_br0, ScBridge @@ ("BRIDGE_STP" :> S_on)
                               @@ ("BRIDGE_PRIORITY" :> S_n32768)
                               @@ ("BRIDGE_HELLOTIME" :> S_n1_5)
                               @@ ("BRIDGE_PORTPRIORITIES" :> S_prio_ok)
                               @@ ("BRIDGE_PATHCOSTS" :> S_cost_ok))
F_br_badstp    == Ifcfg(S_br0, ScBridge @@ ("BRIDGE_STP" :> S_maybe))
F_br_badprio   == Ifcfg(S_br0, ScBridge @@ ("BRIDGE_PRIORITY" :> S_n12x))
F_br_badport   == Ifcfg(S_br0, ("BRIDGE" :> S_yes) @@ ("BRIDGE_PORTS" :> S_ports_bad)
                               @@ ("IPADDR" :> S_addr4p))
F_br_badcost   == Ifcfg(S_br0, ScBridge @@ ("BRIDGE_PATHCOSTS" :> S_cost_bad))
F_br_invalid   == [Ifcfg(S_br0, ScBridge) EXCEPT !.bridge_validate = S_e_bridge]
F_vlan_dot     == Ifcfg(S_eth0_100, ScVlan)
F_vlan_name    == Ifcfg(S_vlan50, ScVlan)
F_vlan_digits  == Ifcfg(S_n123, ScVlan)
F_vlan_self    == Ifcfg(S_vlan50, ("ETHERDEVICE" :> S_vlan50) @@ ("IPADDR" :> S_addr4p))
F_vlan_badid   == Ifcfg(S_vlan50, ScVlan @@ ("VLAN_ID" :> S_n12x))
F_vlan_range   == Ifcfg(S_vlan50, ScVlan @@ ("VLAN_ID" :> S_n4095))
F_vlan_notag   == Ifcfg(S_wlan0 \o <<"x">>, ScVlan)
F_wlan         == Ifcfg(S_wlan0, ("WIRELESS_ESSID" :> S_essid) @@ ("BOOTPROTO" :> S_dhcp))
F_tun          == Ifcfg(S_tun0, ("TUNNEL" :> S_tun) @@ ("IPADDR" :> S_addr4p))
F_l2tp         == Ifcfg(S_tun0, ("TUNNEL" :> S_l2tp) @@ ("ETHTOOL_OPTIONS" :> S_ethtool))
F_badname      == Ifcfg(S_badname, ScStatic)
F_unparsable   == [Ifcfg(S_eth1, EmptySc) EXCEPT !.parsable = FALSE]
F_bak          == Ifcfg(S_eth0 \o S_bak, ScStatic)

\* further texts
S_ON == <<"O", "N">>
S_No == <<"N", "o">>
S_dhcp_bogus == <<"d", "h", "c", "p", "+", "b", "o", "g", "u", "s">>
S_dhcp6_dhcp4 == <<"d", "h", "c", "p", "6", "+", "d", "h", "c", "p", "4">>
S_n7 == <<"7">>
S_n4094 == <<"4", "0", "9", "4">>
S_two32 == <<"4", "2", "9", "4", "9", "6", "7", "2", "9", "6">>
S_huge == <<"9", "9", "9", "9", "9", "9", "9", "9", "9", "9", "9", "9", "9", "9", "9", "9", "9", "9", "9", "9", "9", "9", "9">>
S_prio_short == <<"1", "0">>
S_prio_long == <<"1", "0", " ", "-", " ", "3", "0">>
S_prio_dash == <<"-", " ", "2", "0">>
S_cost_dash == <<"-", " ", "7">>
S_cost_short == <<"5">>
S_cost_long == <<"5", " ", "7", " ", "9">>
S_ports3 == <<"e", "t", "h", "0", " ", "e", "t", "h", "1", " ", "e", "t", "h", "2">>
S_eth0_1x == <<"e", "t", "h", "0", ".", "1", "x">>

\* an interface named "lo" with the keys of every other recognizer
F_lo_all       == Ifcfg(S_lo, ScBond @@ ("BRIDGE" :> S_yes) @@ ("ETHERDEVICE" :> S_eth0)
                              @@ ("WIRELESS_ESSID" :> S_essid) @@ ("TUNNEL" :> S_tun)
                              @@ ("ETHTOOL_OPTIONS" :> S_ethtool) @@ ("IPADDR" :> S_addr4p))
F_lo_none      == Ifcfg(S_lo, ("BOOTPROTO" :> S_none) @@ ("IPADDR" :> S_loop4))
\* the keys of several recognizers in one file
F_bond_br      == Ifcfg(S_bond0, ScBond @@ ("BRIDGE" :> S_yes) @@ ("ETHERDEVICE" :> S_eth0)
                                 @@ ("ETHTOOL_OPTIONS" :> S_ethtool))
F_br_vlan      == Ifcfg(S_br0, ScBridge @@ ("ETHERDEVICE" :> S_eth0) @@ ("VLAN_ID" :> S_n7)
                               @@ ("WIRELESS_ESSID" :> S_essid))
F_vlan_wlan    == Ifcfg(S_vlan50, ScVlan @@ ("WIRELESS_ESSID" :> S_essid)
                                  @@ ("TUNNEL" :> S_gre))
F_wlan_tun     == Ifcfg(S_wlan0, ("WIRELESS_ESSID" :> S_essid) @@ ("TUNNEL" :> S_sit)
                                 @@ ("ETHTOOL_OPTIONS" :> S_ethtool))
F_ethtool      == Ifcfg(S_eth1, ("ETHTOOL_OPTIONS" :> S_ethtool))
F_plain        == Ifcfg(S_eth1, ("IPADDR" :> S_addr4p))

\* BOOTPROTO values
BootprotoPool ==
    { S_dhcp, S_dhcp4, S_dhcp6, S_autoip, S_dhcp4_dhcp6, S_dhcp6_dhcp4, S_dhcp_autoip,
      S_dhcp_bogus, S_bogus, S_DHCP, S_none, S_ibft, S_6to4, S_static, <<>> }
F_bootproto(v) == Ifcfg(S_eth1, ("BOOTPROTO" :> v) @@ ("IPADDR" :> S_addr4p))

\* TUNNEL values
TunnelPool == {S_tun, S_tap, S_sit, S_gre, S_ipip, S_ip6tnl, S_l2tp, S_static}
F_tunnel(v) == Ifcfg(S_tun0, ("TUNNEL" :> v))

\* BRIDGE_STP values
StpPool == {S_on, S_yes, S_off, S_no, S_ON, S_No, S_YES, S_maybe, S_true}
F_stp(v) == Ifcfg(S_br0, ScBridge @@ ("BRIDGE_STP" :> v))

\* BRIDGE_PORTS with BRIDGE_PORTPRIORITIES and BRIDGE_PATHCOSTS
PortsPool == {S_eth0, S_ports_ok, S_ports3}
PortPrioPool == {S_prio_ok, S_prio_short, S_prio_long, S_prio_dash, S_prio_bad}
PathCostPool == {S_cost_ok, S_cost_short, S_cost_long, S_cost_dash, S_cost_bad}
F_portprio(ports, prios) ==
    Ifcfg(S_br0, ("BRIDGE" :> S_yes) @@ ("BRIDGE_PORTS" :> ports)
                 @@ ("BRIDGE_PORTPRIORITIES" :> prios))
F_pathcost(ports, costs) ==
    Ifcfg(S_br0, ("BRIDGE" :> S_yes) @@ ("BRIDGE_PORTS" :> ports)
                 @@ ("BRIDGE_PATHCOSTS" :> costs))

\* VLAN names and VLAN_ID values
VlanNamePool == {S_eth0_100, S_vlan50, S_n123, S_wlan0 \o <<"x">>, S_eth0_1x, S_eth1 \o <<".">>}
VlanIdPool == {S_n0, S_n7, S_n100, S_n4094, S_n4095, S_n32768, S_wrap, S_two32, S_huge,
               S_n12x, S_dash}
F_vlan(name) == Ifcfg(name, ScVlan)
F_vlanid(name, id) == Ifcfg(name, ScVlan @@ ("VLAN_ID" :> id))

\* device names around the rules of the name validation
S_name15 == <<"a", "b", "c", "d", "e", "f", "g", "h", "i", "j", "1", "2", "3", "4", "5">>
S_name16 == <<"a", "b", "c", "d", "e", "f", "g", "h", "i", "j", "1", "2", "3", "4", "5", "6">>
IfnamePool ==
    { <<>>, S_name15, S_name16, <<"_", "e", "t", "h", "0">>, <<".", "e", "t", "h", "0">>, <<"e", "t", "h", "0", "-", "1", "_", "a", ".", "b">>, <<"E", "t", "h", "0">>, <<"0", "e", "t", "h">>, <<"e", "t", "h", " ", "0">>, <<"e", "t", "h", "0", ":", "1">> }
F_named(name) == Ifcfg(name, ScStatic)

\* files that ask for DHCP with options of their own
S_host_auto == <<"A", "u", "t", "o">>
S_cid_if == <<"f", "f", ":", "0", "1">>
S_vend_if == <<"w", "i", "c", "k", "e", "d">>
ScDhcpAll ==
    ("BOOTPROTO" :> S_dhcp) @@ ("DHCLIENT_HOSTNAME_OPTION" :> S_host_if)
    @@ ("DHCLIENT_CLIENT_ID" :> S_cid_if) @@ ("DHCLIENT_VENDOR_CLASS_ID" :> S_vend_if)
    @@ ("DHCLIENT_WAIT_AT_BOOT" :> S_n15) @@ ("DHCLIENT_LEASE_TIME" :> S_n7)
ScDhcpAutoHost ==
    ("BOOTPROTO" :> S_dhcp4) @@ ("DHCLIENT_HOSTNAME_OPTION" :> S_host_auto)
    @@ ("DHCLIENT_WAIT_AT_BOOT" :> S_n0)
DhcpScPool ==
    { ScDhcpAll, ScDhcpAutoHost, ("BOOTPROTO" :> S_dhcp),
      ("BOOTPROTO" :> S_dhcp4) @@ ("DHCLIENT_VENDOR_CLASS_ID" :> S_vend_if) }
F_dhcp(sc) == Ifcfg(S_eth1, sc)

\* files with one address and the variables its prefix length may come from
AddrScPool ==
    { ("IPADDR" :> ip) @@ extra :
         ip \in {S_addr4, S_addr4p, S_v6gw, S_addr6p},
         extra \in { EmptySc,
                     ("PREFIXLEN" :> S_n16),
                     ("NETMASK" :> S_mask16),
                     ("NETMASK" :> S_badmask),
                     ("PREFIXLEN" :> S_n16) @@ ("NETMASK" :> S_mask24),
                     ("PREFIXLEN" :> S_n16) @@ ("NETMASK" :> S_badmask) } }
F_addr(sc) == Ifcfg(S_eth1, sc)

\* files with addresses that reach, or do not reach, the gateways of the
\* global routes
F_two_addrs ==
    [Ifcfg(S_eth0, ("IPADDR" :> S_addr4p) @@ ("IPADDR_0" :> S_host4)
                   @@ ("PREFIXLEN_0" :> S_n24))
     EXCEPT !.ifroute = IfrouteOk]
F_far_addr == Ifcfg(S_eth1, ("IPADDR" :> S_addr4far))
F_two_families == Ifcfg(S_eth0, ("IPADDR" :> S_addr6p) @@ ("IPADDR_0" :> S_addr4far))

IfcfgPool ==
    { F_eth0, F_eth0_routes, F_eth0_badrt, F_eth1_dhcp, F_eth1_ethtool, F_lo,
      F_bond, F_bond_noval, F_bond_noeq, F_bond_invalid,
      F_br, F_br_badstp, F_br_badprio, F_br_badport, F_br_badcost, F_br_invalid,
      F_vlan_dot, F_vlan_name, F_vlan_digits, F_vlan_self, F_vlan_badid, F_vlan_range,
      F_vlan_notag, F_wlan, F_tun, F_l2tp, F_badname, F_unparsable, F_bak,
      F_lo_all, F_lo_none, F_bond_br, F_br_vlan, F_vlan_wlan, F_wlan_tun, F_ethtool,
      F_plain }
    \cup { F_bootproto(v) : v \in BootprotoPool }
    \cup { F_tunnel(v) : v \in TunnelPool }
    \cup { F_stp(v) : v \in StpPool }
    \cup { F_portprio(ports, prios) : ports \in PortsPool, prios \in PortPrioPool }
    \cup { F_pathcost(ports, costs) : ports \in PortsPool, costs \in PathCostPool }
    \cup { F_vlan(name) : name \in VlanNamePool }
    \cup { F_named(name) : name \in IfnamePool }
    \cup { F_dhcp(sc) : sc \in DhcpScPool }
    \cup { F_addr(sc) : sc \in AddrScPool }
    \cup { F_two_addrs, F_far_addr, F_two_families }
    \cup { F_vlanid(name, id) : name \in {S_vlan50, S_eth0_100}, id \in VlanIdPool }

\* what the conversion of a pointer to ni_iftype_t may give: any type, or a
\* number that is no type at all
CastPool == {NI_IFTYPE_UNKNOWN, NI_IFTYPE_TUN, NI_IFTYPE_ETHERNET, "not a type"}

\* the bytes in front of a device name: none that matter, or some ending in
\* a digit
MemBeforePool == {<<>>, <<"x", "1">>}

\* the conversion happens only for a TUNNEL value of the table
CastsOf(f) ==
    IF f.parsable /\ Has(f.sc, "TUNNEL")
       /\ \E i \in 1..Len(__tunnel_types) : __tunnel_types[i][1] = f.sc["TUNNEL"]
    THEN CastPool ELSE {NI_IFTYPE_UNKNOWN}

\* the bytes in front of the name are read only when the name is all digits
MemBeforeOf(name) == IF IsNumber(name) THEN MemBeforePool ELSE {<<>>}

\* the call __ni_suse_read_interface(path of f, ifname)
In(f, ifname, cast, membefore) ==
    [basename |-> f.basename, ifname |-> ifname, parsable |-> f.parsable, sc |-> f.sc,
     ifroute |-> f.ifroute, bonding_validate |-> f.bonding_validate,
     bridge_validate |-> f.bridge_validate, cast |-> cast, membefore |-> membefore]

NameOf(f) == SubSeq(f.basename, Len(S_ifcfg) + 1, Len(f.basename))

\* the calls on a file: from a directory scan (with the name) or on a
\* single file (without)
InputsOf(f) ==
    { In(f, ifname, cast, membefore) :
        ifname \in {<<>>, NameOf(f)}, cast \in CastsOf(f),
        membefore \in MemBeforeOf(NameOf(f)) }

\* global defaults
ScDhcpDefaults ==
    ("DHCLIENT_HOSTNAME_OPTION" :> S_host_gl) @@ ("DHCLIENT_CLIENT_ID" :> S_cid)
    @@ ("DHCLIENT_LEASE_TIME" :> S_n3600)

GlobalRoutesSample ==
    __ni_suse_read_routes([readable |-> TRUE,
                           lines |-> <<Line(<<S_default, S_gw4, S_dash, S_dash>>),
                                       Line(<<S_v6net, S_v6gw, S_dash, S_eth1>>)>>]).ret

S_gw_far == <<"1", "7", "2", ".", "1", "6", ".", "0", ".", "1">>
GlobalRoutesMixed ==
    __ni_suse_read_routes([readable |-> TRUE,
                           lines |-> <<Line(<<S_default, S_gw4, S_dash, S_dash>>),
                                       Line(<<S_net4cidr, S_gw4, S_dash, S_eth0>>),
                                       Line(<<S_net4cidr, S_gw4, S_dash, S_eth1>>),
                                       Line(<<S_net4, S_gw_far, S_mask24, S_dash>>),
                                       Line(<<S_v6net, S_v6gw, S_dash, S_dash>>),
                                       Line(<<S_v6net, S_v6gw, S_dash, S_eth0>>)>>]).ret

ScDhcpDefaultsWait ==
    ("DHCLIENT_HOSTNAME_OPTION" :> S_auto) @@ ("DHCLIENT_VENDOR_CLASS_ID" :> S_vend)
    @@ ("DHCLIENT_WAIT_AT_BOOT" :> S_n0) @@ ("DHCLIENT_LEASE_TIME" :> S_n100)

EnvPool ==
    { [dhcp_defaults |-> d, global_routes |-> r] :
        d \in {NoDefaults, Defaults(ScDhcpDefaults), Defaults(ScDhcpDefaultsWait)},
        r \in {<<>>, GlobalRoutesSample, GlobalRoutesMixed} }

\* no call in progress (the other specifications)
IfcfgPark ==
    /\ ifIn = In(F_eth0, <<>>, NI_IFTYPE_UNKNOWN, <<>>)
    /\ ifEnv = [dhcp_defaults |-> NoDefaults, global_routes |-> <<>>]
    /\ ifPc = "idle"
    /\ ifRet = ReadNull({})

IfcfgInit ==
    /\ ifIn \in UNION {InputsOf(f) : f \in IfcfgPool}
    /\ ifEnv \in EnvPool
    /\ ifPc = "call"
    /\ ifRet = ReadNull({})

\* the call and its return
ReadInterface ==
    /\ ifPc = "call"
    /\ ifRet' = __ni_suse_read_interface(ifIn, ifEnv)
    /\ ifPc' = "done"
    /\ UNCHANGED <<ifIn, ifEnv, refVars, leaseVars, ownVars, rtVars, scVars>>

(***************************************************************************)
(* Global defaults and the scan: __ni_suse_get_interfaces                  *)
(*                                                                         *)
(* The three global pointers are 0 (NULL) or the number of an object of    *)
(* `heap`; an object counts how often it was destroyed.  Destroying an     *)
(* object again, or reading one that was destroyed, is undefined: the call *)
(* may go on or the process may end there ("aborted").                     *)
(***************************************************************************)
\* the globals and the heap as one value; ub: something undefined was done
Mem ==
    [config |-> __ni_suse_config_defaults, dhcp |-> __ni_suse_dhcp_defaults,
     routes |-> __ni_suse_global_routes, heap |-> heap, ub |-> FALSE]

\* ni_sysconfig_destroy / ni_route_list_destroy of object p
Destroy(m, p) ==
    [m EXCEPT !.heap[p].destroyed = @ + 1, !.ub = @ \/ m.heap[p].destroyed > 0]

\* __ni_suse_free_globals (lines 238-248): ni_route_list_destroy clears the
\* pointer it is given, the other two pointers stay as they are
FreeConfig(m) == IF m.config # 0 THEN Destroy(m, m.config) ELSE m
FreeDhcp(m)   == IF m.dhcp # 0 THEN Destroy(m, m.dhcp) ELSE m
FreeRoutes(m) == IF m.routes # 0 THEN [Destroy(m, m.routes) EXCEPT !.routes = 0] ELSE m

__ni_suse_free_globals(m) ==
    The({ The({ FreeRoutes(m2) : m2 \in {FreeDhcp(m1)} }) : m1 \in {FreeConfig(m)} })

\* a new object on the heap
NewSysconfig(sc) == [kind |-> "sysconfig", destroyed |-> 0, sc |-> sc, routes |-> <<>>]
NewRouteList(rl) == [kind |-> "routes", destroyed |-> 0, sc |-> EmptySc, routes |-> rl]

\* the routes file (lines 229-233)
ReadGlobalsRoutes(m, rt) ==
    IF ~rt.exists THEN [ret |-> TRUE, m |-> m]
    ELSE The({ IF r.ret = <<>> THEN [ret |-> FALSE, m |-> [m EXCEPT !.routes = 0]]
               ELSE [ret |-> TRUE,
                     m |-> [m EXCEPT !.heap = Append(@, NewRouteList(r.ret)),
                                     !.routes = Len(m.heap) + 1]]
               : r \in {__ni_suse_read_routes(rt)} })

\* the dhcp file (lines 220-227)
ReadGlobalsDhcp(m, dh, rt) ==
    IF ~dh.exists THEN ReadGlobalsRoutes(m, rt)
    ELSE IF ~dh.parsable THEN [ret |-> FALSE, m |-> [m EXCEPT !.dhcp = 0]]
    ELSE The({ ReadGlobalsRoutes(m1, rt)
               : m1 \in {[m EXCEPT !.heap = Append(@, NewSysconfig(dh.sc)),
                                   !.dhcp = Len(m.heap) + 1]} })

\* the config file (lines 211-218)
ReadGlobalsConfig(m, cfg, dh, rt) ==
    IF ~cfg.exists THEN ReadGlobalsDhcp(m, dh, rt)
    ELSE IF ~cfg.parsable THEN [ret |-> FALSE, m |-> [m EXCEPT !.config = 0]]
    ELSE The({ ReadGlobalsDhcp(m1, dh, rt)
               : m1 \in {[m EXCEPT !.heap = Append(@, NewSysconfig(cfg.sc)),
                                   !.config = Len(m.heap) + 1]} })

\* __ni_suse_read_globals (lines 199-236) of a directory holding the files
\* cfg, dh and rt: [ret, m]
__ni_suse_read_globals(m, cfg, dh, rt) ==
    The({ ReadGlobalsConfig(m0, cfg, dh, rt) : m0 \in {__ni_suse_free_globals(m)} })

\* ---- the directories scanned ----
NoGlobal  == [exists |-> FALSE, parsable |-> FALSE, sc |-> EmptySc]
BadGlobal == [exists |-> TRUE, parsable |-> FALSE, sc |-> EmptySc]
ConfigFilePool ==
    {NoGlobal, BadGlobal, [exists |-> TRUE, parsable |-> TRUE, sc |-> EmptySc]}
DhcpFilePool ==
    {NoGlobal, BadGlobal, [exists |-> TRUE, parsable |-> TRUE, sc |-> ScDhcpDefaults]}
RoutesFilePool ==
    { NoFile,
      [exists |-> TRUE, readable |-> TRUE,
       lines |-> <<Line(<<S_default, S_gw4, S_dash, S_dash>>)>>],
      [exists |-> TRUE, readable |-> TRUE,
       lines |-> <<Line(<<S_default, S_gw4, S_dash, S_dash>>), Line(<<S_bogus, S_gw4>>)>>],
      [exists |-> TRUE, readable |-> TRUE, lines |-> <<S_comment, S_blank>>] }

ScanPool == {F_eth0, F_eth1_dhcp, F_br_badstp, F_badname, F_unparsable, F_bak}

\* the dhcp defaults a translation finds behind the pointer: those of a live
\* object, anything for an object that was destroyed
DhcpViews(m) ==
    IF m.dhcp = 0 THEN {NoDefaults}
    ELSE IF m.heap[m.dhcp].destroyed = 0 THEN {Defaults(m.heap[m.dhcp].sc)}
    ELSE {Defaults(EmptySc), Defaults(ScDhcpDefaults)}

\* __ni_suse_addrconf_dhcp4 gets to read the defaults (lines 1098-1099)
UsesDhcpDefaults(in) ==
    /\ in.parsable
    /\ __ni_suse_valid_ifname(ReadIfname(in))
    /\ \E value \in {BootprotoValue(in.sc, ReadIfname(in))} :
          /\ ~\E t \in {S_none, S_ibft, S_6to4, S_static} : StrCaseEq(value, t)
          /\ \E toks \in {strtok_all(value, {"+"})} :
                \E i \in 1..Len(toks) : StrCaseEq(toks[i], S_dhcp) \/ value = S_dhcp4

\* a directory without global files
NoDir == [config |-> NoGlobal, dhcp |-> NoGlobal, routes |-> NoFile]

ScanPark ==
    /\ scDir = NoDir
    /\ scGlobals = FALSE
    /\ __ni_suse_config_defaults = 0
    /\ __ni_suse_dhcp_defaults = 0
    /\ __ni_suse_global_routes = 0
    /\ heap = <<>>
    /\ scPc = "parked"
    /\ scMode = "dir"
    /\ scLeft = 0
    /\ result = <<>>
    /\ success = FALSE
    /\ scans = 0

ScanInit ==
    /\ scDir = NoDir
    /\ scGlobals = FALSE
    /\ __ni_suse_config_defaults = 0
    /\ __ni_suse_dhcp_defaults = 0
    /\ __ni_suse_global_routes = 0
    /\ heap = <<>>
    /\ scPc = "idle"
    /\ scMode = "dir"
    /\ scLeft = 0
    /\ result = <<>>
    /\ success = FALSE
    /\ scans = 0

\* the globals and the heap become m
SetMem(m) ==
    /\ __ni_suse_config_defaults' = m.config
    /\ __ni_suse_dhcp_defaults' = m.dhcp
    /\ __ni_suse_global_routes' = m.routes
    /\ heap' = m.heap

\* the process ends in the middle of the call
Abort(m) ==
    /\ SetMem(m)
    /\ scPc' = "aborted"
    /\ UNCHANGED <<scMode, scLeft, result, success, scans, scDir, scGlobals>>

\* the label done (lines 190-193): free the globals, return success
Done(m, ok, crash) ==
    \E f \in {__ni_suse_free_globals(m)} :
        /\ crash => f.ub
        /\ IF crash THEN Abort(f)
           ELSE /\ SetMem(f)
                /\ scPc' = "idle"
                /\ success' = ok
                /\ UNCHANGED <<scMode, scLeft, result, scans, scDir, scGlobals>>

\* the call up to the loop over the files (lines 142-160, 173-181): mode
\* "dir" scans a directory in which ifcfg_scan_files finds n files, mode
\* "file" reads one file; the caller hands in an empty result array
ScanBegin ==
    /\ scPc = "idle"
    /\ scans < MaxScans
    /\ \E cfg \in ConfigFilePool, dh \in DhcpFilePool, rt \in RoutesFilePool,
          mode \in {"dir", "file"}, n \in 0..MaxFiles, crash \in BOOLEAN :
          /\ mode = "file" => n = 1
          /\ \E g \in {__ni_suse_read_globals(Mem, cfg, dh, rt)} :
                /\ scans' = scans + 1
                /\ scDir' = [config |-> cfg, dhcp |-> dh, routes |-> rt]
                /\ scGlobals' = g.ret
                /\ scMode' = mode
                /\ result' = <<>>
                /\ IF ~g.ret \/ n = 0
                   THEN \E f \in {__ni_suse_free_globals(g.m)} :
                           /\ crash => f.ub
                           /\ SetMem(f)
                           /\ scPc' = IF crash THEN "aborted" ELSE "idle"
                           /\ success' = FALSE
                           /\ scLeft' = 0
                   ELSE /\ crash => g.m.ub
                        /\ SetMem(g.m)
                        /\ scPc' = IF crash THEN "aborted" ELSE "loop"
                        /\ success' = FALSE
                        /\ scLeft' = n
    /\ UNCHANGED <<refVars, leaseVars, ownVars, rtVars, ifVars>>

\* one file of the loop (lines 161-171), or the single file (lines 183-185)
ScanFile ==
    /\ scPc = "loop"
    /\ scLeft > 0
    /\ \E f \in ScanPool, crash \in BOOLEAN, view \in DhcpViews(Mem) :
          /\ scMode = "dir" => __ni_suse_ifcfg_valid_suffix(f.basename, Len(S_ifcfg))
          /\ \E in \in {In(f, IF scMode = "dir" THEN NameOf(f) ELSE <<>>,
                           NI_IFTYPE_UNKNOWN, <<>>)} :
             \E dangling \in {UsesDhcpDefaults(in) /\ __ni_suse_dhcp_defaults # 0
                              /\ heap[__ni_suse_dhcp_defaults].destroyed > 0} :
             \E r \in {__ni_suse_read_interface(
                          in, [dhcp_defaults |-> view,
                               global_routes |-> IF __ni_suse_global_routes = 0 THEN <<>>
                                                 ELSE heap[__ni_suse_global_routes].routes])} :
                IF r.null
                THEN Done([Mem EXCEPT !.ub = dangling], FALSE, crash)
                ELSE /\ crash => dangling
                     /\ result' = Append(result, r.compat)
                     /\ scLeft' = scLeft - 1
                     /\ scPc' = IF crash THEN "aborted" ELSE "loop"
                     /\ UNCHANGED <<__ni_suse_config_defaults, __ni_suse_dhcp_defaults,
                                    __ni_suse_global_routes, heap, scMode, success, scans,
                                    scDir, scGlobals>>
    /\ UNCHANGED <<refVars, leaseVars, ownVars, rtVars, ifVars>>

\* the loop is through (lines 188-193)
ScanEnd ==
    /\ scPc = "loop"
    /\ scLeft = 0
    /\ \E crash \in BOOLEAN : Done(Mem, TRUE, crash)
    /\ UNCHANGED <<refVars, leaseVars, ownVars, rtVars, ifVars>>

(***************************************************************************)
(* Specifications                                                          *)
(***************************************************************************)
InitRef == RefInit /\ LeaseInit /\ OwnPark /\ RoutesPark /\ IfcfgPark /\ ScanPark

NextRef ==
    \/ \E i \in Ifs : InterfaceGet(i)
    \/ \E i \in Ifs : InterfacePut(i)

SpecRef == InitRef /\ [][NextRef]_vars

InitLease == RefInit /\ LeaseInit /\ OwnPark /\ RoutesPark /\ IfcfgPark /\ ScanPark

NextLease ==
    \/ \E k \in LeaseKeys : LeaseNew(k)
    \/ \E l \in LeaseIds : SetLease(l)
    \/ \E k \in LeaseKeys : UnsetLease(k)

SpecLease == InitLease /\ [][NextLease]_vars

\* the lease list when callers also hand in leases that are attached; a
\* list that holds a freed lease is not walked any more
NextLeaseAgain ==
    \/ ListLive /\ NextLease
    \/ ListLive /\ \E l \in LeaseIds : SetLeaseAgain(l)

SpecLeaseAgain == InitLease /\ [][NextLeaseAgain]_vars

InitOwn == RefInit /\ LeaseInit /\ OwnInit /\ RoutesPark /\ IfcfgPark /\ ScanPark

NextOwn == OwnsAddress

SpecOwn == InitOwn /\ [][NextOwn]_vars

InitOwnRoute ==
    RefInit /\ LeaseInit /\ OwnAddrPark /\ RouteLeaseInit /\ RoutesPark /\ IfcfgPark /\ ScanPark

NextOwnRoute == RouteToLease

SpecOwnRoute == InitOwnRoute /\ [][NextOwnRoute]_vars

InitRoutes == RefInit /\ LeaseInit /\ OwnPark /\ RoutesInit /\ IfcfgPark /\ ScanPark

NextRoutes ==
    \/ ReadRoutesOpen
    \/ ReadRoutesLine
    \/ ReadRoutesEof

SpecRoutes == InitRoutes /\ [][NextRoutes]_vars

InitIfcfg == RefInit /\ LeaseInit /\ OwnPark /\ RoutesPark /\ IfcfgInit /\ ScanPark

NextIfcfg == ReadInterface

SpecIfcfg == InitIfcfg /\ [][NextIfcfg]_vars

Init == RefInit /\ LeaseInit /\ OwnPark /\ RoutesPark /\ IfcfgPark /\ ScanInit

Next ==
    \/ ScanBegin
    \/ ScanFile
    \/ ScanEnd

Spec == Init /\ [][Next]_vars

(***************************************************************************)
(* Claims about the lease list (SpecLease)                                 *)
(***************************************************************************)
NoDupKeys ==
    \A i, j \in 1..Len(leases) :
        i # j => leaseKey[leases[i]] # leaseKey[leases[j]]

\* the leases that were attached under key k on list `before`
AttachedUnder(before, k) ==
    {before[i] : i \in {j \in 1..Len(before) : leaseKey[before[j]] = k}}

\* C4: the lease list never holds two leases with the same (family,
\* mechanism) pair; after set_lease(L) the only lease with L's key is L, and
\* the lease that was attached under that key is off the list and freed.
C4_OneLeasePerKey ==
    /\ NoDupKeys
    /\ leaseLast.op = "set" =>
        /\ OnList(leaseLast.lease)
        /\ \A i \in 1..Len(leases) :
              leaseKey[leases[i]] = leaseLast.key => leases[i] = leaseLast.lease
        /\ \A p \in AttachedUnder(leaseLast.before, leaseLast.key) :
              ~OnList(p) /\ p \in leaseFreed

\* a set_lease that replaced a lease while another key stayed attached
C4_Witness ==
    /\ leaseLast.op = "set"
    /\ AttachedUnder(leaseLast.before, leaseLast.key) # {}
    /\ Len(leases) >= 2

(***************************************************************************)
(* Claims about reference counting (SpecRef)                               *)
(***************************************************************************)
\* C5: an interface created with count 1 is torn down exactly once, at the
\* put that takes the count from 1 to 0, and never while the count is
\* positive; a successful get adds exactly 1, a put on a positive count
\* takes exactly 1 away.
C5_TornDownOnceAtZero ==
    /\ [](\A i \in Ifs :
            /\ freeCalls[i] <= 1
            /\ (users[i] > 0 => freeCalls[i] = 0)
            /\ (users[i] = 0 => freeCalls[i] = 1))
    /\ [][\A i \in Ifs :
            /\ freeCalls'[i] - freeCalls[i] =
                  (IF users[i] = 1 /\ users'[i] = 0 /\ refLast'.op = "put" THEN 1 ELSE 0)
            /\ (refLast'.ifp = i /\ refLast'.op = "get" /\ refLast'.ok)
                  => users'[i] = users[i] + 1
            /\ (refLast'.ifp = i /\ refLast'.op = "get" /\ ~refLast'.ok)
                  => users[i] = 0 /\ users'[i] = 0
            /\ (refLast'.ifp = i /\ refLast'.op = "put" /\ users[i] > 0)
                  => users'[i] = users[i] - 1
            /\ refLast'.ifp # i => users'[i] = users[i]]_vars

\* one object was shared and then torn down by its last put while another
\* still has several holders
C5_Witness ==
    /\ refLast.op = "put" /\ refLast.before = 1 /\ refLast.free
    /\ \E i \in Ifs : freeCalls[i] = 1 /\ users[i] = 0
    /\ \E i \in Ifs : users[i] > 1

\* C6: a put on a count that is already zero reports an error, returns 0,
\* leaves the count at zero and does not tear the object down again.
C6_PutAtZeroIsReported ==
    (refLast.op = "put" /\ refLast.before = 0) =>
        /\ refLast.err
        /\ refLast.ret = 0
        /\ ~refLast.free
        /\ users[refLast.ifp] = 0
        /\ freeCalls[refLast.ifp] = 1

C6_Witness ==
    /\ refLast.op = "put" /\ refLast.before = 0
    /\ freeCalls[refLast.ifp] = 1

(***************************************************************************)
(* Claims about lease ownership of an address (SpecOwn)                    *)
(***************************************************************************)
NotExpired(x) == x.expires = 0 \/ x.expires > Now

Range(q) == {q[i] : i \in DOMAIN q}

\* the bits of an address, most significant first
BitAt(a, n) == (a.bytes[((n - 1) \div 8) + 1] \div Pow2(7 - ((n - 1) % 8))) % 2

\* address a lies inside the prefix dest/len
InsidePrefix(a, dest, len) ==
    /\ a.family = dest.family
    /\ len <= 8 * Len(a.bytes)
    /\ \A n \in 1..len : BitAt(a, n) = BitAt(dest, n)

SameAddress(ap, match) ==
    /\ ap.local_addr = match.local_addr
    /\ ap.peer_addr = match.peer_addr
    /\ ap.anycast_addr = match.anycast_addr

\* C7: for a lease that is not IPv6 autoconf, an address is reported as
\* owned only if the lease holds a non-expired address of the same family
\* with equal local, peer and anycast address, and it is reported as owned
\* whenever the lease holds such an address with equal prefix length.
C7_OwnsIffSameAddress ==
    (ownPc = "done" /\ ~ownLease.null /\ ~IsAutoconf6(ownLease)) =>
        /\ ownResult = 1 =>
              \E ap \in Range(ownLease.addrs) :
                  /\ NotExpired(ap)
                  /\ ap.family = ownMatch.family
                  /\ SameAddress(ap, ownMatch)
        /\ (/\ ownLease.family = ownMatch.family
            /\ \E ap \in Range(ownLease.addrs) :
                  /\ NotExpired(ap)
                  /\ ap.prefixlen = ownMatch.prefixlen
                  /\ SameAddress(ap, ownMatch))
              => ownResult = 1

\* C8: an IPv6 autoconf lease owns an address that lies inside one of its
\* recorded route prefixes of the same prefix length that is not expired
\* (expiry 0 or in the future), whatever its address list holds; a route
\* whose expiry is in the past does not establish ownership.
C8_AutoconfOwnsByRoutePrefix ==
    (ownPc = "done" /\ ~ownLease.null /\ IsAutoconf6(ownLease)
        /\ ownMatch.family = AF_INET6) =>
        /\ (\E rp \in Range(ownLease.routes) :
                /\ rp.prefixlen = ownMatch.prefixlen
                /\ NotExpired(rp)
                /\ InsidePrefix(ownMatch.local_addr, rp.destination, rp.prefixlen))
              => ownResult = 1
        /\ (ownResult = 1 /\ ownLease.addrs = <<>>) =>
              \E rp \in Range(ownLease.routes) :
                  /\ rp.prefixlen = ownMatch.prefixlen
                  /\ ~(rp.expires # 0 /\ rp.expires < Now)
                  /\ InsidePrefix(ownMatch.local_addr, rp.destination, rp.prefixlen)

\* owned through a live route prefix, behind an expired one, with no address
\* recorded in the lease
C8_Witness ==
    /\ ownPc = "done" /\ ~ownLease.null /\ IsAutoconf6(ownLease)
    /\ ownLease.addrs = <<>>
    /\ Len(ownLease.routes) = 2
    /\ ownLease.routes[1].expires = Past
    /\ NotExpired(ownLease.routes[2])
    /\ InsidePrefix(ownMatch.local_addr, ownLease.routes[1].destination, ownMatch.prefixlen)
    /\ ownResult = 1

\* an expired route prefix alone: not owned
C8_WitnessExpired ==
    /\ ownPc = "done" /\ ~ownLease.null /\ IsAutoconf6(ownLease)
    /\ ownLease.addrs = <<>>
    /\ Len(ownLease.routes) = 1
    /\ ownLease.routes[1].expires = Past
    /\ ownLease.routes[1].prefixlen = ownMatch.prefixlen
    /\ InsidePrefix(ownMatch.local_addr, ownLease.routes[1].destination, ownMatch.prefixlen)
    /\ ownResult = 0

(***************************************************************************)
(* Route files                                                             *)
(***************************************************************************)
\* the columns of a line of a route file
LineToks(l) == strtok_all(SubSeq(l, 1, strcspn(l, {"#", "\r", "\n"})), {" ", "\t"})
Unparsable(t) == ~ni_sockaddr_parse(t, AF_UNSPEC).ok
BadGateway(t) == Len(t) >= 2 /\ t[2] # S_dash /\ Unparsable(t[2])
BadDestination(t) == t[1] # S_default /\ Unparsable(RouteAddrText(t[1]))
BadMask(t) == Len(t) >= 3 /\ t[3] # S_dash /\ Unparsable(t[3])
\* the mask column is what gives the prefix length
MaskConsulted(t) == t[1] # S_default /\ strchr(t[1], "/") = 0
\* every column parses, and still no route can be made of them: the family
\* is unknown ("default" without a gateway) or gateway and destination differ
CannotCreate(t) ==
    /\ ~BadGateway(t)
    /\ ~BadDestination(t)
    /\ \E gwf \in {IF Len(t) >= 2 /\ t[2] # S_dash
                   THEN ni_sockaddr_parse(t[2], AF_UNSPEC).addr.family ELSE AF_UNSPEC} :
          IF t[1] = S_default THEN gwf = AF_UNSPEC
          ELSE gwf # AF_UNSPEC /\
               gwf # ni_sockaddr_parse(RouteAddrText(t[1]), AF_UNSPEC).addr.family

\* a line with a destination, gateway or mask that cannot be parsed, or of
\* which no route can be created
MalformedLine(l) ==
    \E t \in {LineToks(l)} :
        t # <<>> /\ (BadGateway(t) \/ BadDestination(t) \/ BadMask(t) \/ CannotCreate(t))

\* the same, the mask counted only where it is consulted
FailingLine(l) ==
    \E t \in {LineToks(l)} :
        t # <<>> /\ (BadGateway(t) \/ BadDestination(t) \/ CannotCreate(t)
                     \/ (BadMask(t) /\ MaskConsulted(t)))

NothingReturned == rtRet = <<>> /\ rtDestroyed = rtCreated

C9_WitnessMaskIgnored ==
    /\ rtPc = "done"
    /\ rtRet # <<>>
    /\ \E i \in 1..Len(rtFile.lines) : \E t \in {LineToks(rtFile.lines[i])} :
          t # <<>> /\ BadMask(t) /\ ~MaskConsulted(t)

LocalRoute(net, n) ==
    [family |-> AF_INET, prefixlen |-> n, destination |-> net,
     gateway |-> NullAddr, device |-> NoDevice]

DefaultGateways ==
    { <<S_gw4, V4(192, 168, 1, 1)>>, <<S_v6gw, V6(32, 1, 13, 184, 1)>> }

\* C10: "net/N" with mask "-" and "net" with the dotted mask of N leading one
\* bits give the same route (destination net, prefix length N, zero gateway,
\* no device); "default" gives prefix length 0 and the family of the gateway;
\* a gateway or device of "-" is absent.
C10_RouteLineSemantics ==
    rtPc = "done" =>
        /\ \A net \in PairNets, n \in PairLens :
              rtFile.lines = PairFile(net, n) =>
                  rtRet = <<LocalRoute(net, n), LocalRoute(net, n)>>
        /\ \A g \in DefaultGateways :
              rtFile.lines = <<Line(<<S_default, g[1], S_dash, S_dash>>)>> =>
                  rtRet = << [family |-> g[2].family, prefixlen |-> 0,
                              destination |-> ZeroAddr(g[2].family),
                              gateway |-> g[2], device |-> NoDevice] >>
        /\ (Len(rtFile.lines) = 1 /\ Len(rtRet) = 1) =>
              \E t \in {LineToks(rtFile.lines[1])} :
                  /\ (Len(t) < 2 \/ t[2] = S_dash) => rtRet[1].gateway = NullAddr
                  /\ (Len(t) < 4 \/ t[4] = S_dash) => rtRet[1].device = NoDevice
                  /\ (Len(t) >= 4 /\ t[4] # S_dash) => rtRet[1].device = t[4]

\* C10 witness: the CIDR form and the netmask form of one network were read
\* from one file (a prefix length that is not the host default).
C10_Witness ==
    /\ rtPc = "done"
    /\ rtFile.lines = PairFile(V4(10, 0, 0, 0), 23)
    /\ Len(rtRet) = 2
    /\ rtRet[2].prefixlen = 23

\* C10 witness: a default route took its family from the gateway.
C10_WitnessDefault ==
    /\ rtPc = "done"
    /\ rtFile.lines = <<Line(<<S_default, S_gw4, S_dash, S_dash>>)>>
    /\ Len(rtRet) = 1
    /\ rtRet[1].family = AF_INET

(***************************************************************************)
(* Claims about the translation of one ifcfg file (SpecIfcfg)              *)
(***************************************************************************)
\* what a link-type recognizer logs when it fails to parse or validate, and
\* what is logged when the ifroute file cannot be parsed
RecognizerFailures ==
    { "bonding options", "bonding validation",
      "BRIDGE_STP", "BRIDGE_PRIORITY", "BRIDGE_AGEINGTIME", "BRIDGE_FORWARDDELAY",
      "BRIDGE_HELLOTIME", "BRIDGE_MAXAGE", "BRIDGE_PORTS", "BRIDGE_PORTPRIORITIES",
      "BRIDGE_PATHCOSTS", "bridge validation",
      "ETHERDEVICE self-reference", "VLAN_ID", "vlan-tag from interface name",
      "VLAN range",
      "warn: unable to parse ifroute" }

\* C3: when a link-type recognizer fails to parse or validate (bonding
\* option, bonding or bridge validation, bridge scalar or port name, VLAN
\* self-reference or bad tag) or the ifroute file of the interface cannot be
\* parsed, __ni_suse_read_interface returns no InterfaceConfig.
C3_RecognizerFailureFailsInterface ==
    (ifPc = "done" /\ ifRet.errs \cap RecognizerFailures # {}) => ifRet.null

(***************************************************************************)
(* Claims about the scan (Spec)                                            *)
(***************************************************************************)
\* C1: a call of __ni_suse_get_interfaces that fails leaves no InterfaceConfig
\* of that scan in the caller's result collection.
C1_FailedScanLeavesNoResult ==
    (scPc = "idle" /\ scans > 0 /\ ~success) => result = <<>>

\* C2: over any sequence of __ni_suse_get_interfaces calls every global
\* defaults object __ni_suse_read_globals loaded is released exactly once:
\* never a second time, and once by the time the call that loaded it has
\* returned.
C2_GlobalsReleasedExactlyOnce ==
    /\ \A o \in 1..Len(heap) : heap[o].destroyed <= 1
    /\ scPc = "idle" => \A o \in 1..Len(heap) : heap[o].destroyed = 1

(***************************************************************************)
(* Claims: link type recognizers and BOOTPROTO                             *)
(***************************************************************************)
\* the call on ifIn has returned an interface configuration
Translated == ifPc = "done" /\ ~ifRet.null

\* the device name and the variables of the call
IfName == ReadIfname(ifIn)
IfSc == ifIn.sc

\* the recognizers that ran, in the order they ran
RecognizersRun ==
    SelectSeq(ifRet.compat.calls, LAMBDA c : \E k \in 1..Len(Recognizers) : Recognizers[k] = c)

\* the link type recognizer k sets when it claims the interface (1..5)
ClaimedType ==
    <<NI_IFTYPE_LOOPBACK, NI_IFTYPE_BOND, NI_IFTYPE_BRIDGE, NI_IFTYPE_VLAN,
      NI_IFTYPE_WIRELESS>>

\* C11: the recognizers run in the order loopback, bonding, bridge, vlan,
\* wireless, tunnel, ethernet; the first that claims the interface is the
\* last that runs and the link type stays what it set; an interface named
\* "lo" is a loopback whatever other keys its file holds.
C11_FirstMatchWins ==
    Translated =>
        /\ Len(RecognizersRun) \in 1..Len(Recognizers)
        /\ \A i \in 1..Len(RecognizersRun) : RecognizersRun[i] = Recognizers[i]
        /\ ifRet.matched # 0 => Len(RecognizersRun) = ifRet.matched
        /\ ifRet.matched \in 1..Len(ClaimedType) =>
               ifRet.compat.type = ClaimedType[ifRet.matched]
        /\ IfName = S_lo =>
               /\ ifRet.compat.type = NI_IFTYPE_LOOPBACK
               /\ RecognizersRun = <<"try_loopback">>

\* C11 witness: "lo" with bonding, bridge, vlan, wireless and tunnel keys
C11_Witness ==
    /\ Translated
    /\ IfName = S_lo
    /\ \A key \in {"BONDING_MASTER", "BRIDGE", "ETHERDEVICE", "WIRELESS_ESSID", "TUNNEL"} :
          Has(IfSc, key)
    /\ ifRet.compat.type = NI_IFTYPE_LOOPBACK

\* C11 witness: a bond whose file also holds bridge and vlan keys
C11_WitnessBond ==
    /\ Translated
    /\ ifRet.matched = 2
    /\ Has(IfSc, "BRIDGE") /\ Has(IfSc, "ETHERDEVICE")
    /\ ifRet.compat.type = NI_IFTYPE_BOND

\* the '+'-separated tokens of the file's BOOTPROTO
BootprotoToks == IF Has(IfSc, "BOOTPROTO") THEN strtok_all(IfSc["BOOTPROTO"], {"+"}) ELSE <<>>
HasToken(tok) == \E i \in 1..Len(BootprotoToks) : BootprotoToks[i] = tok

\* BOOTPROTO is one of the values that are not split into tokens
BootprotoIs(names) ==
    Has(IfSc, "BOOTPROTO") /\ \E n \in names : StrCaseEq(IfSc["BOOTPROTO"], n)

\* BOOTPROTO is a '+'-joined list of tokens on a device other than "lo"
BootprotoDynamicList ==
    /\ Translated
    /\ IfName # S_lo
    /\ Has(IfSc, "BOOTPROTO") /\ IfSc["BOOTPROTO"] # <<>>
    /\ ~BootprotoIs({S_none, S_ibft, S_6to4, S_static})

\* C12: the tokens of BOOTPROTO take effect one by one: a token "dhcp4" (or
\* "dhcp") enables DHCP4, a token "dhcp6" (or "dhcp") enables DHCP6, and a
\* token that is not known does not keep the others from taking effect.
C12_BootprotoTokensCumulative ==
    BootprotoDynamicList =>
        /\ (HasToken(S_dhcp4) \/ HasToken(S_dhcp)) => ifRet.compat.dhcp4.enabled
        /\ (HasToken(S_dhcp6) \/ HasToken(S_dhcp)) => ifRet.compat.dhcp6_enabled

\* how often, and where, __ni_suse_addrconf_static was called
StaticCalls ==
    { i \in 1..Len(ifRet.compat.calls) : ifRet.compat.calls[i] = "__ni_suse_addrconf_static" }

\* C13: whatever BOOTPROTO says other than none and ibft, static address
\* processing runs exactly once and is the last of the address configuration
\* calls; for none and ibft on a device other than "lo" it does not run; on
\* "lo" it always runs.
C13_StaticRunsOnceLast ==
    Translated =>
        IF IfName # S_lo /\ BootprotoIs({S_none, S_ibft})
        THEN StaticCalls = {}
        ELSE StaticCalls = {Len(ifRet.compat.calls)}

\* C13 witness: BOOTPROTO="dhcp+autoip": dhcp4 and dhcp6, then static
C13_Witness ==
    /\ BootprotoDynamicList
    /\ IfSc["BOOTPROTO"] = S_dhcp_autoip
    /\ ifRet.compat.dhcp4.enabled
    /\ StaticCalls = {Len(ifRet.compat.calls)}
    /\ \E i \in 1..Len(ifRet.compat.calls) - 1 :
          ifRet.compat.calls[i] = "__ni_suse_addrconf_dhcp6"

\* C13 witness: "lo" with BOOTPROTO="none" still gets its static addresses
C13_WitnessLoopback ==
    /\ Translated
    /\ IfName = S_lo
    /\ BootprotoIs({S_none})
    /\ StaticCalls # {}

\* C13 witness: BOOTPROTO="ibft" on another device: no static processing
C13_WitnessNone ==
    /\ Translated
    /\ IfName # S_lo
    /\ BootprotoIs({S_ibft})
    /\ StaticCalls = {}

\* the file makes recognizer k the first to look at the variables of its own
\* kind: the device is not "lo" and the keys of the recognizers before k are
\* not set (2 bonding, 3 bridge, 4 vlan, 5 wireless, 6 tunnel, 7 ethernet)
NoKeysBefore(k) ==
    /\ IfName # S_lo
    /\ k > 2 => ~ni_sysconfig_get_boolean(IfSc, "BONDING_MASTER").enabled
    /\ k > 3 => ~ni_sysconfig_get_boolean(IfSc, "BRIDGE").enabled
    /\ k > 4 => ~Has(IfSc, "ETHERDEVICE")
    /\ k > 5 => ~Has(IfSc, "WIRELESS_ESSID")
    /\ k > 6 => ~Has(IfSc, "TUNNEL")

\* C14: with ETHTOOL_OPTIONS in the file and no key of the loopback, bonding,
\* bridge, vlan, wireless and tunnel recognizers, the link type is ethernet.
C14_EthernetFallback ==
    (Translated /\ NoKeysBefore(7) /\ Has(IfSc, "ETHTOOL_OPTIONS")) =>
        ifRet.compat.type = NI_IFTYPE_ETHERNET

\* the type the name table gives for a TUNNEL value, unknown for a value
\* that is not in the table
TunnelTableType(value) ==
    IF \E i \in 1..Len(__tunnel_types) : __tunnel_types[i][1] = value
    THEN __tunnel_types[CHOOSE i \in 1..Len(__tunnel_types) : __tunnel_types[i][1] = value][2]
    ELSE NI_IFTYPE_UNKNOWN

\* C15: a TUNNEL value of the table sets the link type the table gives for
\* it; any other TUNNEL value leaves the type unset and is no error.
C15_TunnelTypeFromTable ==
    (Translated /\ NoKeysBefore(6) /\ Has(IfSc, "TUNNEL")) =>
        /\ ifRet.compat.type = TunnelTableType(IfSc["TUNNEL"])
        /\ ifRet.errs = {}

\* C16: BRIDGE_STP on or yes (in any case) gives a bridge with STP enabled,
\* off or no one with STP disabled, anything else is a parse error.
C16_BridgeStp ==
    (Translated /\ NoKeysBefore(3) /\ ni_sysconfig_get_boolean(IfSc, "BRIDGE").enabled
        /\ Has(IfSc, "BRIDGE_STP")) =>
        IF StrCaseEq(IfSc["BRIDGE_STP"], S_on) \/ StrCaseEq(IfSc["BRIDGE_STP"], S_yes)
        THEN ifRet.compat.bridge.stp /\ "BRIDGE_STP" \notin ifRet.errs
        ELSE IF StrCaseEq(IfSc["BRIDGE_STP"], S_off) \/ StrCaseEq(IfSc["BRIDGE_STP"], S_no)
        THEN ~ifRet.compat.bridge.stp /\ "BRIDGE_STP" \notin ifRet.errs
        ELSE "BRIDGE_STP" \in ifRet.errs

(***************************************************************************)
(* Claims: bridge ports                                                    *)
(***************************************************************************)
\* the value of a decimal text
RECURSIVE DecVal(_, _)
DecVal(s, n) == IF n = 0 THEN 0 ELSE DecVal(s, n - 1) * 10 + DigitVal(s[n])

\* the whitespace-separated words of a variable of the file
Words(key) == IF Has(IfSc, key) THEN strtok_all(IfSc[key], {" ", "\t"}) ELSE <<>>

Min(a, b) == IF a < b THEN a ELSE b

\* the file describes a bridge and try_bridge gets as far as the per-port
\* lists: nothing before them failed
BridgePortsRead ==
    /\ Translated
    /\ NoKeysBefore(3)
    /\ ni_sysconfig_get_boolean(IfSc, "BRIDGE").enabled
    /\ Has(IfSc, "BRIDGE_PORTS")
    /\ ifRet.errs \cap {"BRIDGE_STP", "BRIDGE_PRIORITY", "BRIDGE_AGEINGTIME",
                        "BRIDGE_FORWARDDELAY", "BRIDGE_HELLOTIME", "BRIDGE_MAXAGE",
                        "BRIDGE_PORTS"} = {}

\* what a list aligned with the ports gives port k: the value of word k, the
\* default for "-" and for a port the list does not reach
Aligned(words, k) ==
    IF k <= Len(words) /\ words[k] # S_dash THEN DecVal(words[k], Len(words[k]))
    ELSE NI_BRIDGE_VALUE_NOT_SET

\* a word of the list that stands for a port and is neither "-" nor a number
BadWord(words, nports) ==
    \E k \in 1..Min(Len(words), nports) : words[k] # S_dash /\ ~IsNumber(words[k])

\* C17: BRIDGE_PORTPRIORITIES is aligned by position with BRIDGE_PORTS: word
\* k sets the priority of port k, "-" leaves the default, words beyond the
\* ports are ignored without error, ports beyond the words keep the default.
C17_PortPrioritiesAligned ==
    (BridgePortsRead /\ Has(IfSc, "BRIDGE_PORTPRIORITIES")) =>
        /\ Len(ifRet.compat.ports) = Len(Words("BRIDGE_PORTS"))
        /\ "BRIDGE_PORTPRIORITIES" \in ifRet.errs <=>
               BadWord(Words("BRIDGE_PORTPRIORITIES"), Len(ifRet.compat.ports))
        /\ "BRIDGE_PORTPRIORITIES" \notin ifRet.errs =>
               \A k \in 1..Len(ifRet.compat.ports) :
                   /\ ifRet.compat.ports[k].ifname = Words("BRIDGE_PORTS")[k]
                   /\ ifRet.compat.ports[k].priority =
                          Aligned(Words("BRIDGE_PORTPRIORITIES"), k)

\* C17 witness: BRIDGE_PORTS="eth0 eth1", BRIDGE_PORTPRIORITIES="10 -"
C17_Witness ==
    /\ BridgePortsRead
    /\ Words("BRIDGE_PORTS") = <<S_eth0, S_eth1>>
    /\ Words("BRIDGE_PORTPRIORITIES") = <<<<"1", "0">>, S_dash>>
    /\ ifRet.compat.ports[1].priority = 10
    /\ ifRet.compat.ports[2].priority = NI_BRIDGE_VALUE_NOT_SET

\* C17 witness: more words than ports, the last of them no number
C17_WitnessTruncated ==
    /\ BridgePortsRead
    /\ Len(Words("BRIDGE_PORTS")) = 1
    /\ Words("BRIDGE_PORTPRIORITIES") = <<<<"1", "0">>, <<"x">>>>
    /\ ifRet.compat.ports[1].priority = 10
    /\ ifRet.errs = {}

\* C18: BRIDGE_PATHCOSTS is aligned by position with BRIDGE_PORTS in the same
\* way: word k sets the path cost of port k, "-" leaves the default, and no
\* port at or beyond the port count is touched.
C18_PathCostsAligned ==
    (BridgePortsRead /\ Has(IfSc, "BRIDGE_PATHCOSTS")
        /\ ~BadWord(Words("BRIDGE_PATHCOSTS"), Len(Words("BRIDGE_PORTS")))) =>
        /\ Len(ifRet.compat.ports) = Len(Words("BRIDGE_PORTS"))
        /\ \A k \in 1..Len(ifRet.compat.ports) :
               ifRet.compat.ports[k].path_cost = Aligned(Words("BRIDGE_PATHCOSTS"), k)

(***************************************************************************)
(* Claims: VLAN tag                                                        *)
(***************************************************************************)
\* the file describes a VLAN on another device and try_vlan is the first
\* recognizer to look at its keys
VlanRead ==
    /\ Translated
    /\ NoKeysBefore(4)
    /\ Has(IfSc, "ETHERDEVICE")
    /\ IfSc["ETHERDEVICE"] # IfName

\* the trailing run of digits of a text
RECURSIVE TrailingDigits(_)
TrailingDigits(s) ==
    IF s = <<>> \/ ~IsDigit(s[Len(s)]) THEN <<>>
    ELSE Append(TrailingDigits(SubSeq(s, 1, Len(s) - 1)), s[Len(s)])

\* the positions of '.' in the device name
Dots == { i \in 1..Len(IfName) : IfName[i] = "." }
LastDot == CHOOSE i \in Dots : \A j \in Dots : j <= i

\* the text the tag is to be taken from: VLAN_ID, else what follows the last
\* '.' of the name, else the trailing digits of the name
TagText ==
    IF Has(IfSc, "VLAN_ID") THEN IfSc["VLAN_ID"]
    ELSE IF Dots # {} THEN SubSeq(IfName, LastDot + 1, Len(IfName))
    ELSE TrailingDigits(IfName)

\* the interface came out as a VLAN
IsVlan == ifRet.matched = 4 /\ ifRet.compat.type = NI_IFTYPE_VLAN

\* a tag text of at most four digits
ShortNumber(s) == IsNumber(s) /\ Len(s) <= 4

\* C19: without VLAN_ID the tag is the number after the last '.' of the
\* name or, for a name without '.', the number its trailing digits form; a
\* name without '.' and without a trailing digit is rejected; VLAN_ID, when
\* present, is what counts.
C19_VlanTagInference ==
    VlanRead =>
        /\ (ShortNumber(TagText) /\ DecVal(TagText, Len(TagText)) <= __NI_VLAN_TAG_MAX) =>
               /\ IsVlan
               /\ ifRet.compat.vlan.tag = DecVal(TagText, Len(TagText))
               /\ ifRet.compat.vlan.physdev_name = IfSc["ETHERDEVICE"]
        /\ TagText = <<>> =>
               /\ ~IsVlan
               /\ ifRet.errs \cap {"VLAN_ID", "vlan-tag from interface name"} # {}

\* the value of a decimal text of any length is at most `max`
AtMost(s, max) ==
    \E lead \in 0..Len(s) :
        /\ \A i \in 1..lead : s[i] = "0"
        /\ Len(s) - lead <= 5
        /\ DecVal(SubSeq(s, lead + 1, Len(s)), Len(s) - lead) <= max

\* C20: a tag text of digits only with a value of 0..4094 is accepted, one
\* with a value of 4095 or more is rejected however long it is, a text that
\* is not all digits is rejected; an accepted VLAN has a tag in 0..4094.
C20_VlanTagRange ==
    (VlanRead /\ Has(IfSc, "VLAN_ID")) =>
        /\ IsVlan <=> (IsNumber(TagText) /\ AtMost(TagText, __NI_VLAN_TAG_MAX))
        /\ IsVlan => ifRet.compat.vlan.tag \in 0..__NI_VLAN_TAG_MAX

(***************************************************************************)
(* Claims: interface names                                                 *)
(***************************************************************************)
AlnumChars ==
    { DigitChars[i] : i \in 1..10 } \cup { LowerChars[i] : i \in 1..26 }
    \cup { UpperChars[i] : i \in 1..26 }

\* the rules for a device name: not empty, shorter than IFNAMSIZ, an
\* alphanumeric first character, then alphanumeric characters, '-', '_', '.'
NameOk(name) ==
    /\ name # <<>>
    /\ Len(name) < IFNAMSIZ
    /\ name[1] \in AlnumChars
    /\ \A i \in 2..Len(name) : name[i] \in AlnumChars \cup {"-", "_", "."}

\* the names of the ports BRIDGE_PORTS lists, up to the first that is bad
RECURSIVE GoodPrefix(_)
GoodPrefix(names) ==
    IF names = <<>> \/ ~NameOk(names[1]) THEN <<>>
    ELSE <<names[1]>> \o GoodPrefix(Tail(names))

\* C21: the validation accepts exactly the names that follow the rules; a
\* call on a name that breaks one creates no interface, and a bridge takes
\* no port of such a name.
C21_IfnameValidation ==
    ifPc = "done" =>
        /\ __ni_suse_valid_ifname(IfName) <=> NameOk(IfName)
        /\ ~NameOk(IfName) => ifRet.null
        /\ (BridgePortsRead \/ (Translated /\ "BRIDGE_PORTS" \in ifRet.errs)) =>
               /\ \A k \in 1..Len(ifRet.compat.ports) : NameOk(ifRet.compat.ports[k].ifname)
               /\ "BRIDGE_PORTS" \in ifRet.errs <=>
                      \E k \in 1..Len(Words("BRIDGE_PORTS")) : ~NameOk(Words("BRIDGE_PORTS")[k])

\* C21 witness: a name of IFNAMSIZ characters is turned down
C21_Witness ==
    /\ ifPc = "done"
    /\ Len(IfName) = IFNAMSIZ
    /\ ifRet.null
    /\ "suspect interface name" \in ifRet.errs

\* C21 witness: a name one character shorter is taken
C21_WitnessAccepted ==
    /\ Translated
    /\ Len(IfName) = IFNAMSIZ - 1
    /\ ifRet.compat.name = IfName

\* C21 witness: a port name with '/' in BRIDGE_PORTS
C21_WitnessPort ==
    /\ Translated
    /\ "BRIDGE_PORTS" \in ifRet.errs
    /\ \E k \in 1..Len(Words("BRIDGE_PORTS")) :
          \E i \in 1..Len(Words("BRIDGE_PORTS")[k]) : Words("BRIDGE_PORTS")[k][i] = "/"

(***************************************************************************)
(* Claims: DHCP options                                                    *)
(***************************************************************************)
\* the global dhcp defaults of the call (no variables when there are none)
GlobalDhcp == IF ifEnv.dhcp_defaults.null THEN EmptySc ELSE ifEnv.dhcp_defaults.sc

\* what one layer makes of an option: prev when the layer does not set it
LayerText(sc, key, prev) == IF Has(sc, key) THEN sc[key] ELSE prev
LayerHostname(sc, prev) ==
    IF Has(sc, "DHCLIENT_HOSTNAME_OPTION")
       /\ ~StrCaseEq(sc["DHCLIENT_HOSTNAME_OPTION"], S_auto)
    THEN sc["DHCLIENT_HOSTNAME_OPTION"] ELSE prev
LayerWait(sc, prev) ==
    IF ~Has(sc, "DHCLIENT_WAIT_AT_BOOT") THEN prev
    ELSE IF DecVal(sc["DHCLIENT_WAIT_AT_BOOT"], Len(sc["DHCLIENT_WAIT_AT_BOOT"])) = 0
    THEN NI_IFWORKER_INFINITE_TIMEOUT
    ELSE DecVal(sc["DHCLIENT_WAIT_AT_BOOT"], Len(sc["DHCLIENT_WAIT_AT_BOOT"]))
LayerLease(sc, prev) ==
    IF ~Has(sc, "DHCLIENT_LEASE_TIME") THEN prev
    ELSE DecVal(sc["DHCLIENT_LEASE_TIME"], Len(sc["DHCLIENT_LEASE_TIME"]))

\* C22: the DHCP4 options are the global defaults with the options of the
\* interface's file on top: an option set in both is the file's, one set
\* only globally is the global one; a boot-wait of 0 is infinite and a
\* hostname option "auto" is ignored.
C22_Dhcp4TwoLayers ==
    (Translated /\ ifRet.compat.dhcp4.enabled) =>
        /\ ifRet.compat.dhcp4.hostname = LayerHostname(IfSc, LayerHostname(GlobalDhcp, <<>>))
        /\ ifRet.compat.dhcp4.client_id =
               LayerText(IfSc, "DHCLIENT_CLIENT_ID",
                         LayerText(GlobalDhcp, "DHCLIENT_CLIENT_ID", <<>>))
        /\ ifRet.compat.dhcp4.vendor_class =
               LayerText(IfSc, "DHCLIENT_VENDOR_CLASS_ID",
                         LayerText(GlobalDhcp, "DHCLIENT_VENDOR_CLASS_ID", <<>>))
        /\ ifRet.compat.dhcp4.acquire_timeout = LayerWait(IfSc, LayerWait(GlobalDhcp, 0))
        /\ ifRet.compat.dhcp4.lease_time = LayerLease(IfSc, LayerLease(GlobalDhcp, 0))

\* C22 witness: hostname set in both layers, client id only globally
C22_Witness ==
    /\ Translated
    /\ Has(IfSc, "DHCLIENT_HOSTNAME_OPTION") /\ Has(GlobalDhcp, "DHCLIENT_HOSTNAME_OPTION")
    /\ ~Has(IfSc, "DHCLIENT_CLIENT_ID") /\ Has(GlobalDhcp, "DHCLIENT_CLIENT_ID")
    /\ ifRet.compat.dhcp4.enabled
    /\ ifRet.compat.dhcp4.hostname = S_host_if
    /\ ifRet.compat.dhcp4.client_id = S_cid

\* C22 witness: boot-wait 0 and hostname "auto" in the file, over defaults
\* that set a lease time
C22_WitnessInfinite ==
    /\ Translated
    /\ IfSc = ScDhcpAutoHost
    /\ GlobalDhcp = ScDhcpDefaults
    /\ ifRet.compat.dhcp4.acquire_timeout = NI_IFWORKER_INFINITE_TIMEOUT
    /\ ifRet.compat.dhcp4.hostname = S_host_gl
    /\ ifRet.compat.dhcp4.lease_time = 3600

(***************************************************************************)
(* Claims: addresses and routes of an interface                            *)
(***************************************************************************)
\* a variable of the file is set to a text that is not empty
IsSet(key) == Has(IfSc, key) /\ IfSc[key] # <<>>

\* the file gives one address, in IPADDR, on a device other than "lo", and
\* static address processing has run on it
OneAddressRead ==
    /\ Translated
    /\ IfName # S_lo
    /\ StaticCalls # {}
    /\ ni_sysconfig_find_matching(IfSc, "IPADDR") = <<"">>
    /\ IsSet("IPADDR")
    /\ ni_sockaddr_prefix_parse(IfSc["IPADDR"]).ok

\* the address family the IPADDR text is written in
IpaddrFamily == IF strchr(IfSc["IPADDR"], ":") # 0 THEN AF_INET6 ELSE AF_INET

\* the prefix the IPADDR text encodes, if any
IpaddrSlash == strchr(IfSc["IPADDR"], "/")
IpaddrOwnPrefix ==
    DecVal(SubSeq(IfSc["IPADDR"], IpaddrSlash + 1, Len(IfSc["IPADDR"])),
           Len(IfSc["IPADDR"]) - IpaddrSlash)

\* NETMASK is what decides: no prefix in the text, no PREFIXLEN, IPv4
NetmaskDecides ==
    IpaddrSlash = 0 /\ ~IsSet("PREFIXLEN") /\ IpaddrFamily = AF_INET /\ IsSet("NETMASK")

\* NETMASK is a valid IPv4 address
NetmaskValid == ni_sockaddr_parse(IfSc["NETMASK"], AF_INET).ok

\* the prefix length by the order of priority
PrefixByPriority ==
    IF IpaddrSlash # 0 THEN IpaddrOwnPrefix
    ELSE IF IsSet("PREFIXLEN") THEN DecVal(IfSc["PREFIXLEN"], Len(IfSc["PREFIXLEN"]))
    ELSE IF IpaddrFamily = AF_INET /\ IsSet("NETMASK")
    THEN ni_sockaddr_netmask_bits(ni_sockaddr_parse(IfSc["NETMASK"], AF_INET).addr)
    ELSE IF IpaddrFamily = AF_INET THEN 32 ELSE 128

\* C23: the prefix length of an address comes from the IPADDR text itself,
\* else from PREFIXLEN, else (IPv4) from the bits of NETMASK, else it is the
\* full width of the address; a NETMASK that decides and is no valid IPv4
\* address makes the address fail with an error.
C23_PrefixPriority ==
    OneAddressRead =>
        IF NetmaskDecides /\ ~NetmaskValid
        THEN ifRet.compat.addrs = <<>> /\ ifRet.errs # {}
        ELSE /\ Len(ifRet.compat.addrs) = 1
             /\ ifRet.compat.addrs[1].family = IpaddrFamily
             /\ ifRet.compat.addrs[1].prefixlen = PrefixByPriority

\* static address processing has read the addresses and gone on to the routes
RoutesAttached ==
    /\ Translated
    /\ StaticCalls # {}
    /\ ni_sysconfig_find_matching(IfSc, "IPADDR") # <<>>
    /\ "IPADDR" \notin ifRet.errs

\* the routes of the interface's own ifroute file
OwnRoutes == IF ifIn.ifroute.exists THEN __ni_suse_read_routes(ifIn.ifroute).ret ELSE <<>>

\* the IPv4 addresses of the interface that reach the gateway of a route
Reaching(rp) ==
    { i \in 1..Len(ifRet.compat.addrs) :
        /\ ifRet.compat.addrs[i].family = AF_INET
        /\ rp.gateway.family = AF_INET
        /\ ni_address_prefix_match(ifRet.compat.addrs[i].prefixlen,
                                   ifRet.compat.addrs[i].local_addr, rp.gateway) }

\* a global route is to be attached to the interface
ToAttach(rp) ==
    \/ /\ rp.family = AF_INET
       /\ rp.device = NoDevice \/ rp.device = IfName
       /\ Reaching(rp) # {}
    \/ /\ rp.family = AF_INET6
       /\ rp.device = IfName

C24_WitnessUnreached ==
    /\ RoutesAttached
    /\ \E k \in 1..Len(ifEnv.global_routes) :
          /\ ifEnv.global_routes[k].family = AF_INET
          /\ ifEnv.global_routes[k].device = NoDevice
          /\ Reaching(ifEnv.global_routes[k]) = {}
    /\ \E i \in 1..Len(ifRet.compat.addrs) : ifRet.compat.addrs[i].family = AF_INET
    /\ ifRet.compat.routes # <<>>

(***************************************************************************)
(* Claims: the lease of a route                                            *)
(***************************************************************************)
\* the lookup returned, on an interface and a route that are not NULL
RouteLookedUp == rlPc = "done" /\ ~rlIfp.null /\ ~rlRoute.null

\* the route is the implied on-link route of an address of lease i
OnLinkOf(i) ==
    \E k \in 1..Len(rlIfp.leases[i].addrs) :
        /\ rlIfp.leases[i].addrs[k].prefixlen = rlRoute.route.prefixlen
        /\ ni_address_prefix_match(rlRoute.route.prefixlen, rlRoute.route.destination,
                                   rlIfp.leases[i].addrs[k].local_addr)

\* the route equals a route recorded in lease i
RecordedIn(i) ==
    \E k \in 1..Len(rlIfp.leases[i].routes) :
        ni_route_equal(rlIfp.leases[i].routes[k], rlRoute.route)

\* C25: the lookup returns the first lease of the list for which the route
\* is the on-link route of one of its addresses or equal to one of its
\* recorded routes, the on-link test deciding first, and no lease exactly
\* when no lease passes either test.
C25_RouteToLeaseFirst ==
    RouteLookedUp =>
        /\ rlRet.lease = 0 <=>
              \A i \in 1..Len(rlIfp.leases) : ~OnLinkOf(i) /\ ~RecordedIn(i)
        /\ rlRet.lease # 0 =>
              /\ rlRet.lease \in 1..Len(rlIfp.leases)
              /\ OnLinkOf(rlRet.lease) \/ RecordedIn(rlRet.lease)
              /\ \A j \in 1..(rlRet.lease - 1) : ~OnLinkOf(j) /\ ~RecordedIn(j)
              /\ rlRet.via = IF OnLinkOf(rlRet.lease) THEN "address" ELSE "route"

\* C25 witness: two leases own the route, the first by a recorded route and
\* the second by an address; the first is returned
C25_Witness ==
    /\ RouteLookedUp
    /\ Len(rlIfp.leases) = 2
    /\ RecordedIn(1) /\ ~OnLinkOf(1)
    /\ OnLinkOf(2)
    /\ rlRet = [lease |-> 1, via |-> "route"]

\* C25 witness: a lease passes both tests and is found by its address
C25_WitnessBoth ==
    /\ RouteLookedUp
    /\ rlRet.lease # 0
    /\ OnLinkOf(rlRet.lease) /\ RecordedIn(rlRet.lease)
    /\ rlRet.via = "address"

\* C25 witness: leases with addresses and routes, none of which owns the
\* route; no lease is returned
C25_WitnessNone ==
    /\ RouteLookedUp
    /\ Len(rlIfp.leases) = 2
    /\ \A i \in 1..2 : rlIfp.leases[i].addrs # <<>> /\ rlIfp.leases[i].routes # <<>>
    /\ rlRet = NoLease

(***************************************************************************)
(* Claims: global files of a scan                                          *)
(***************************************************************************)
\* a line that holds blanks only, or blanks and a comment
BlankOrComment(line) ==
    \A i \in 1..strcspn(line, {"#"}) : line[i] \in {" ", "\t", "\r", "\n"}

\* a routes file that is there and holds blank lines and comments only
CommentsOnly(file) ==
    /\ file.exists
    /\ file.readable
    /\ file.lines # <<>>
    /\ \A i \in 1..Len(file.lines) : BlankOrComment(file.lines[i])

\* a call was made on a directory whose config and dhcp files, where there,
\* can be parsed
GlobalsParsable ==
    /\ scans > 0
    /\ scDir.config.exists => scDir.config.parsable
    /\ scDir.dhcp.exists => scDir.dhcp.parsable

\* C26: a global routes file that holds blank lines and comments only is an
\* empty list of routes: __ni_suse_read_globals does not fail on it.
C26_CommentOnlyRoutesOk ==
    (GlobalsParsable /\ CommentsOnly(scDir.routes)) => scGlobals

\* the DHCP4 options of a translated interface hold something that comes
\* from the global defaults of the model (no file of ScanPool sets these)
HoldsGlobalDhcp(compat) ==
    /\ compat.dhcp4.enabled
    /\ \/ compat.dhcp4.client_id # <<>>
       \/ compat.dhcp4.lease_time # 0
       \/ compat.dhcp4.hostname = S_host_gl

\* C27: when the directory of the call has no dhcp file, no interface of the
\* call gets DHCP4 options from global defaults, whatever earlier calls
\* loaded and released.
C27_NoStaleDhcpDefaults ==
    (scans > 0 /\ ~scDir.dhcp.exists) =>
        \A i \in 1..Len(result) : ~HoldsGlobalDhcp(result[i])

(***************************************************************************)
(* Claims: setting a lease that is attached                                *)
(***************************************************************************)
\* how often a lease is on the list
TimesOnList(l) == Cardinality({ i \in 1..Len(leases) : leases[i] = l })

\* C28: after ni_interface_set_lease(ifp, lease) every lease of the list is
\* live and `lease` is on the list exactly once, also when `lease` is the
\* object that was attached under its key.
C28_SetLeaseKeepsListLive ==
    leaseLast.op = "set" =>
        /\ \A i \in 1..Len(leases) : leases[i] \notin leaseFreed
        /\ TimesOnList(leaseLast.lease) = 1

(***************************************************************************)
(* Claims: the backward scan of try_vlan                                   *)
(***************************************************************************)
\* the tag is taken from the trailing digits of the name
TagFromTrailingDigits == VlanRead /\ ~Has(IfSc, "VLAN_ID") /\ Dots = {}

\* the memory the scan walks over, and the place where it comes to rest
ScanMem == ifIn.membefore \o IfName
ScanRest == ScanDigitsBack(ScanMem, Len(ScanMem) + 1)

\* C29: the backward scan over the trailing digits of a name without '.'
\* comes to rest at or after the first character of the name, and a name of
\* digits alone gives the number the whole name spells as the tag.
C29_BackwardScanInsideName ==
    TagFromTrailingDigits =>
        /\ ScanRest > Len(ifIn.membefore)
        /\ (ShortNumber(IfName) /\ DecVal(IfName, Len(IfName)) <= __NI_VLAN_TAG_MAX) =>
               /\ IsVlan
               /\ ifRet.compat.vlan.tag = DecVal(IfName, Len(IfName))

(***************************************************************************)
(* Claims: the link type and recognizers that do not claim the interface   *)
(***************************************************************************)
\* the link type the recognizer that returned a match sets
MatchedType ==
    IF ifRet.matched \in 1..5 THEN ClaimedType[ifRet.matched]
    ELSE IF ifRet.matched = 6 THEN ifIn.cast
    ELSE IF ifRet.matched = 7 THEN NI_IFTYPE_ETHERNET
    ELSE NI_IFTYPE_UNKNOWN

\* C30: a recognizer that returns no match leaves the link type as it was,
\* so the link type of a translated interface is Unknown or the type of the
\* one recognizer that returned a match.
C30_NoMatchLeavesType ==
    Translated => ifRet.compat.type \in {NI_IFTYPE_UNKNOWN, MatchedType}

====
